---- MODULE Spec2Model ----
(***************************************************************************)
(* Model of the synthesis / normalization core of the repository analyzer  *)
(* (src/main_agent.py, class EnhancedASIOneRepoAnalyzer).                   *)
(*                                                                         *)
(* Python values are modelled as follows.                                  *)
(*   - A JSON value is a record [t, s, n, l]: t is the Python type the     *)
(*     json module produces ("null", "bool", "num", "str", "list",         *)
(*     "dict"), s the text of a str, n the number (1/0 for a bool, the     *)
(*     number of keys for a nested dict), l the elements of a list.        *)
(*   - A dict with string keys is a function whose DOMAIN is its key set,  *)
(*     so  key in d  is  key \in DOMAIN d.                                  *)
(*   - A str is a TLA+ string; a response text is a sequence of lexical    *)
(*     tokens (fence markers, braces, JSON members, prose), on which       *)
(*     find / rfind / the fence regex / json.loads are computed.           *)
(***************************************************************************)
EXTENDS Integers, Sequences, FiniteSets, TLC

VARIABLES
    pc,               \* position of the running operation
    attempt,          \* synthesize_analysis: the loop variable of line 447
    calls,            \* number of ask_asi_one calls issued so far
    response,         \* what the last model call produced
    synthesis_prompt, \* which prompt the next model call sends
    result,           \* value returned by the operation (None until then)
    outcome,          \* how the operation ended
    agent_responses,  \* the opinions handed to synthesize_analysis
    events,           \* history of the run: calls and their verdicts
    session_map,      \* self.session_map: conversation id -> session id
    uuid_next,        \* uuid.uuid4(): the next fresh identifier
    req,              \* the argument of the operation being applied
    out2,             \* result of a second application (defaulting pass)
    space,            \* the atoms of the MeTTa space, in insertion order
    discovered_agents, \* analyze_repository_and_create_issue: discovered_agents
    selected_agents   \* analyze_repository_and_create_issue: selected_agents

vars == <<pc, attempt, calls, response, synthesis_prompt, result, outcome,
          agent_responses, events, session_map, uuid_next, req, out2,
          space, discovered_agents, selected_agents>>

(***************************************************************************)
(* JSON values as Python sees them                                         *)
(***************************************************************************)
JStr(s) == [t |-> "str", s |-> s, n |-> 0, l |-> <<>>]
JNum(n) == [t |-> "num", s |-> "", n |-> n, l |-> <<>>]
JBool(b) == [t |-> "bool", s |-> "", n |-> IF b THEN 1 ELSE 0, l |-> <<>>]
JNull == [t |-> "null", s |-> "", n |-> 0, l |-> <<>>]
JList(l) == [t |-> "list", s |-> "", n |-> 0, l |-> l]
JDict(n) == [t |-> "dict", s |-> "", n |-> n, l |-> <<>>]

\* A list of str, as the code writes its literal lists.
StrList(ss) == JList([i \in 1..Len(ss) |-> JStr(ss[i])])

\* Python truth value of a JSON value (used by  not issue_data[key]).
Truthy(v) ==
    CASE v.t = "null" -> FALSE
      [] v.t = "bool" -> v.n = 1
      [] v.t = "num"  -> v.n # 0
      [] v.t = "str"  -> v.s # ""
      [] v.t = "list" -> v.l # <<>>
      [] v.t = "dict" -> v.n # 0

\* isinstance(v, list)
IsList(v) == v.t = "list"

\* v in [<str literals>]: list membership compares with ==, and only a str
\* equals a str.
InStrs(v, strs) == v.t = "str" /\ v.s \in strs

\* Python None, the failure value of the extractor.
None == [none |-> TRUE]

\* d[key] = value on a dict (assignment creates the key when absent).
SetKey(d, key, value) ==
    [k \in (DOMAIN d) \cup {key} |-> IF k = key THEN value ELSE d[k]]

EmptyDict == [k \in {} |-> JNull]

(***************************************************************************)
(* validate_and_fix_issue_data                                             *)
(***************************************************************************)
Difficulties == {"Easy", "Medium", "Hard"}
Priorities == {"Low", "Medium", "High"}

\* The order in which the defaults dict is iterated (lines 644-653).
CanonicalFields ==
    <<"title", "body", "difficulty", "priority", "labels",
      "implementation_estimate", "technical_requirements",
      "acceptance_criteria">>

FieldSet == {CanonicalFields[i] : i \in 1..Len(CanonicalFields)}

defaults ==
    [title |-> JStr("AI-Generated Repository Enhancement"),
     body |-> JStr("AI-generated feature suggestion based on repository analysis."),
     difficulty |-> JStr("Medium"),
     priority |-> JStr("Medium"),
     labels |-> StrList(<<"enhancement", "ai-generated">>),
     implementation_estimate |-> JStr("2-3 weeks"),
     technical_requirements |-> StrList(<<"Implementation planning", "Code development">>),
     acceptance_criteria |-> StrList(<<"Feature implemented", "Tests pass">>)]

\* Lines 656-659: every key of defaults that is absent or falsy gets its
\* default value.
fill_defaults(issue_data) ==
    [k \in (DOMAIN issue_data) \cup FieldSet |->
        IF k \in FieldSet /\ (k \notin DOMAIN issue_data \/ ~Truthy(issue_data[k]))
        THEN defaults[k]
        ELSE issue_data[k]]

\* Lines 662-668: a value outside the enumeration becomes "Medium".
fix_enum_lenient(issue_data, key, allowed) == issue_data

fix_enum(issue_data, key, allowed) ==
    IF ~InStrs(issue_data[key], allowed)
    THEN SetKey(issue_data, key, JStr("Medium"))
    ELSE issue_data

\* Lines 671-681: a value that is not a list is replaced wholesale.
fix_list_lenient(issue_data, key, default_list) == issue_data

fix_list(issue_data, key, default_list) ==
    IF ~IsList(issue_data[key])
    THEN SetKey(issue_data, key, default_list)
    ELSE issue_data

\* A defaulting pass that tags the labels instead of leaving a valid list
\* alone.
validate_and_fix_tagging(issue_data) ==
    LET d1 == fill_defaults(issue_data)
        d2 == fix_enum(d1, "difficulty", Difficulties)
        d3 == fix_enum(d2, "priority", Priorities)
        d4 == fix_list(d3, "labels", StrList(<<"enhancement", "ai-generated">>))
        d5 == SetKey(d4, "labels", JList(Append(d4["labels"].l, JStr("ai-generated"))))
        d6 == fix_list(d5, "technical_requirements",
                       StrList(<<"Implementation planning", "Code development">>))
    IN  fix_list(d6, "acceptance_criteria", StrList(<<"Feature implemented", "Tests pass">>))

validate_and_fix_issue_data(issue_data) ==
    LET d1 == fill_defaults(issue_data)
        d2 == fix_enum(d1, "difficulty", Difficulties)
        d3 == fix_enum(d2, "priority", Priorities)
        d4 == fix_list(d3, "labels", StrList(<<"enhancement", "ai-generated">>))
        d5 == fix_list(d4, "technical_requirements",
                       StrList(<<"Implementation planning", "Code development">>))
    IN  fix_list(d5, "acceptance_criteria", StrList(<<"Feature implemented", "Tests pass">>))

(***************************************************************************)
(* Strings                                                                 *)
(***************************************************************************)
UpperAlpha == "ABCDEFGHIJKLMNOPQRSTUVWXYZ"
LowerAlpha == "abcdefghijklmnopqrstuvwxyz"
Digits == "0123456789"

CharAt(s, i) == SubSeq(s, i, i)

CharsOf(s) == {CharAt(s, i) : i \in 1..Len(s)}

\* \w of the re module, on the characters the model's texts use.
WordChars == CharsOf(UpperAlpha) \cup CharsOf(LowerAlpha) \cup CharsOf(Digits) \cup {"_"}

\* \s of the re module.
SpaceChars == {" ", "\n", "\t"}

UpperChars == CharsOf(UpperAlpha)

LowerChar(c) ==
    IF c \in UpperChars
    THEN CharAt(LowerAlpha, CHOOSE i \in 1..26 : CharAt(UpperAlpha, i) = c)
    ELSE c

\* str.lower(), by halves.
RECURSIVE LowerRange(_, _, _)
LowerRange(s, a, b) ==
    IF a > b THEN ""
    ELSE IF a = b THEN LowerChar(CharAt(s, a))
    ELSE LowerRange(s, a, (a + b) \div 2) \o LowerRange(s, ((a + b) \div 2) + 1, b)

Lower(s) == LowerRange(s, 1, Len(s))

\* keyword in text  (substring test)
Contains(text, keyword) ==
    \E i \in 1..(Len(text) - Len(keyword) + 1) :
        SubSeq(text, i, i + Len(keyword) - 1) = keyword

\* The first position at or after from that holds one of the characters cs,
\* 0 when there is none.
FindChar(s, cs, from) ==
    IF \E i \in from..Len(s) : CharAt(s, i) \in cs
    THEN CHOOSE i \in from..Len(s) :
            /\ CharAt(s, i) \in cs
            /\ \A j \in from..(i - 1) : CharAt(s, j) \notin cs
    ELSE 0

\* The first position at or after from whose character is not in cs,
\* Len(s) + 1 when there is none.
SkipChars(s, cs, from) ==
    IF \E i \in from..Len(s) : CharAt(s, i) \notin cs
    THEN CHOOSE i \in from..Len(s) :
            /\ CharAt(s, i) \notin cs
            /\ \A j \in from..(i - 1) : CharAt(s, j) \in cs
    ELSE Len(s) + 1

\* The last position whose character is not in cs, 0 when there is none.
SkipCharsBack(s, cs, to) ==
    IF \E i \in 1..to : CharAt(s, i) \notin cs
    THEN CHOOSE i \in 1..to :
            /\ CharAt(s, i) \notin cs
            /\ \A j \in (i + 1)..to : CharAt(s, j) \in cs
    ELSE 0

\* str.strip()
StripStr(s) ==
    LET a == SkipChars(s, SpaceChars, 1)
        b == SkipCharsBack(s, SpaceChars, Len(s))
    IN  IF a > b THEN "" ELSE SubSeq(s, a, b)

\* The words (maximal runs of \w characters) of a string, each with the
\* position it starts at.
WordsOf(s) ==
    LET starts == {i \in 1..Len(s) :
                      /\ CharAt(s, i) \in WordChars
                      /\ (i = 1 \/ CharAt(s, i - 1) \notin WordChars)}
    IN  {[pos |-> i, w |-> SubSeq(s, i, SkipChars(s, WordChars, i) - 1)] : i \in starts}

RECURSIVE NatToStr(_)
NatToStr(n) ==
    IF n < 10 THEN CharAt(Digits, n + 1)
    ELSE NatToStr(n \div 10) \o CharAt(Digits, (n % 10) + 1)

(***************************************************************************)
(* Response texts                                                          *)
(*                                                                         *)
(* A text is a sequence of tokens [t, s, k, v]:                            *)
(*   "fence_json"  the json code-fence marker   "fence"  the bare marker    *)
(*   "lbrace" {    "rbrace" }    "nl" a line break                         *)
(*   "member"      one well-formed  "k": v  member of a JSON object (with  *)
(*                 its separating comma)                                   *)
(*   "label"       one of the words the title patterns look for            *)
(*   "prose"       any other text s, free of braces, fences, line breaks   *)
(*                 and labels                                              *)
(* Braces and back-quotes of a text are exactly its brace and fence        *)
(* tokens; a nested object is a member value, so it lies between the       *)
(* outermost braces find and rfind select.                                 *)
(***************************************************************************)
Tok(t, s) == [t |-> t, s |-> s, k |-> "", v |-> JNull]
\* (a back-quote cannot be written in a TLA+ string: the markers are rendered
\* with apostrophes)
FenceJson == Tok("fence_json", "'''json")
Fence == Tok("fence", "'''")
LBrace == Tok("lbrace", "{")
RBrace == Tok("rbrace", "}")
NL == Tok("nl", "\n")
Label(s) == Tok("label", s)
Prose(s) == Tok("prose", s)
Member(k, v) == [t |-> "member", s |-> "", k |-> k, v |-> v]

\* What the model call hands back: a str (kind "text"), a null content
\* (kind "none"), or an exception raised by ask_asi_one (kind "raise").
Text(toks) == [kind |-> "text", toks |-> toks]
NoContent == [kind |-> "none", toks |-> <<>>]
Raised == [kind |-> "raise", toks |-> <<>>]

\* Positions of the tokens of the given kinds, and first / last of them
\* (0 stands for Python's -1: not found).
Positions(toks, kinds) == {i \in 1..Len(toks) : toks[i].t \in kinds}
MinOf(S) == CHOOSE x \in S : \A y \in S : x <= y
MaxOf(S) == CHOOSE x \in S : \A y \in S : x >= y
FirstPos(toks, kinds) ==
    IF Positions(toks, kinds) = {} THEN 0 ELSE MinOf(Positions(toks, kinds))
LastPos(toks, kinds) ==
    IF Positions(toks, kinds) = {} THEN 0 ELSE MaxOf(Positions(toks, kinds))

\* str.strip() on a text: line breaks at both ends go.
StripToks(toks) ==
    LET keep == {i \in 1..Len(toks) : toks[i].t # "nl"}
    IN  IF keep = {} THEN <<>> ELSE SubSeq(toks, MinOf(keep), MaxOf(keep))

\* Lines 608-611: if the json fence marker occurs and the regex
\* <marker>json\s*(.*?)\s*<marker> matches, the text becomes group(1),
\* stripped.  The lazy group ends at the next back-quote triple after the
\* first json marker (the opening of a second json marker is one).
strip_code_fence(cleaned_response) ==
    LET open == FirstPos(cleaned_response, {"fence_json"})
        closes == {j \in Positions(cleaned_response, {"fence", "fence_json"}) : j > open}
    IN  IF open # 0 /\ closes # {}
        THEN StripToks(SubSeq(cleaned_response, open + 1, MinOf(closes) - 1))
        ELSE cleaned_response

\* json.loads on a candidate that starts with { and ends with }: it parses
\* iff everything between the two braces is members and white space; a
\* repeated key keeps its last value.  The result is None for a
\* JSONDecodeError.
RECURSIVE MembersToDict(_, _)
MembersToDict(toks, d) ==
    IF toks = <<>> THEN d
    ELSE MembersToDict(Tail(toks),
                       IF Head(toks).t = "member"
                       THEN SetKey(d, Head(toks).k, Head(toks).v)
                       ELSE d)

json_loads(json_str) ==
    IF /\ Len(json_str) >= 2
       /\ json_str[1].t = "lbrace"
       /\ json_str[Len(json_str)].t = "rbrace"
       /\ \A i \in 2..(Len(json_str) - 1) : json_str[i].t \in {"member", "nl"}
    THEN MembersToDict(SubSeq(json_str, 2, Len(json_str) - 1), EmptyDict)
    ELSE None

(***************************************************************************)
(* extract_json_from_response                                              *)
(***************************************************************************)
required_fields == {"title", "body", "difficulty", "priority"}

\* The candidate cleaned_response[start_brace:end_brace + 1] of lines
\* 614-618; found is the guard of line 617.
json_candidate(cleaned_response) ==
    LET start_brace == FirstPos(cleaned_response, {"lbrace"})
        end_brace == LastPos(cleaned_response, {"rbrace"})
    IN  IF start_brace # 0 /\ end_brace # 0 /\ end_brace > start_brace
        THEN [found |-> TRUE, json_str |-> SubSeq(cleaned_response, start_brace, end_brace)]
        ELSE [found |-> FALSE, json_str |-> <<>>]

\* A response that is not a str makes response.strip() raise; the
\* except Exception clause of line 636 turns that into None, as the
\* except json.JSONDecodeError clause of line 633 does for a parse error.
extract_json_from_response(resp) ==
    IF resp.kind # "text" THEN None
    ELSE LET cleaned_response == strip_code_fence(StripToks(resp.toks))
             candidate == json_candidate(cleaned_response)
         IN  IF ~candidate.found THEN None
             ELSE LET issue_data == json_loads(candidate.json_str)
                  IN  IF issue_data = None THEN None
                      ELSE IF required_fields \subseteq DOMAIN issue_data
                      THEN validate_and_fix_issue_data(issue_data)
                      ELSE None

(***************************************************************************)
(* The text of a token sequence (what a regex over the raw response sees)  *)
(***************************************************************************)
RECURSIVE RenderValue(_)
RECURSIVE RenderItems(_)
RenderItems(items) ==
    IF items = <<>> THEN ""
    ELSE RenderValue(Head(items))
         \o (IF Len(items) > 1 THEN ", " ELSE "")
         \o RenderItems(Tail(items))

RenderValue(v) ==
    CASE v.t = "null" -> "null"
      [] v.t = "bool" -> IF v.n = 1 THEN "true" ELSE "false"
      [] v.t = "num"  -> NatToStr(v.n)
      [] v.t = "str"  -> "\"" \o v.s \o "\""
      [] v.t = "list" -> "[" \o RenderItems(v.l) \o "]"
      [] v.t = "dict" -> IF v.n = 0 THEN "{}" ELSE "{\"k\": 1}"

RenderTok(tok) ==
    IF tok.t = "member"
    THEN "\"" \o tok.k \o "\": " \o RenderValue(tok.v)
    ELSE tok.s

\* Whether the first token that is not a line break is a member.
NextIsMember(toks) ==
    LET rest == {i \in 1..Len(toks) : toks[i].t # "nl"}
    IN  rest # {} /\ toks[MinOf(rest)].t = "member"

\* Tokens of a line are separated by one blank, and a member from the next
\* member by a comma.
RECURSIVE RenderToks(_)
RenderToks(toks) ==
    IF toks = <<>> THEN ""
    ELSE RenderTok(Head(toks))
         \o (IF Head(toks).t = "member" /\ NextIsMember(Tail(toks)) THEN "," ELSE "")
         \o (IF Len(toks) > 1 /\ Head(toks).t # "nl" /\ toks[2].t # "nl"
             THEN " " ELSE "")
         \o RenderToks(Tail(toks))

\* The lines of a text: the token runs between line breaks.
RECURSIVE LinesOf(_)
LinesOf(toks) ==
    LET brk == FirstPos(toks, {"nl"})
    IN  IF brk = 0 THEN <<toks>>
        ELSE <<SubSeq(toks, 1, brk - 1)>> \o LinesOf(SubSeq(toks, brk + 1, Len(toks)))

\* The lower-cased words of each line (re.IGNORECASE).
LineWords(toks) ==
    LET lines == LinesOf(toks)
    IN  [i \in 1..Len(lines) |-> WordsOf(Lower(RenderToks(lines[i])))]

\* re.search(r'\b(w1|w2|...)\b', response, re.IGNORECASE)
HasWord(toks, words) ==
    LET lw == LineWords(toks)
    IN  \E i \in 1..Len(lw) : \E x \in lw[i] : x.w \in words

\* re.search(r'\b(w1|w2|...)\b.*priority', response, re.IGNORECASE): one of
\* the words, and later on the same line the letters "priority".
HasWordBeforePriority(toks, words) ==
    LET lw == LineWords(toks)
    IN  \E i \in 1..Len(lw) : \E x \in lw[i] : \E y \in lw[i] :
            x.w \in words /\ x.pos < y.pos /\ Contains(y.w, "priority")

(***************************************************************************)
(* parse_direct_response                                                   *)
(***************************************************************************)
\* The exception value of an operation that raises.
Exception == [raised |-> TRUE]

\* The three title patterns of lines 944-948, in list order: the labels each
\* looks for (lower-cased) and the characters that end its lazy group.
title_patterns ==
    <<[labels |-> {"feature:", "title:", "enhancement:"}, ends |-> {"\n"}, needs_end |-> FALSE],
      [labels |-> {"suggest:", "recommendation:", "feature:"}, ends |-> {"\n"}, needs_end |-> FALSE],
      [labels |-> {"add", "implement", "create"}, ends |-> {"\n", "."}, needs_end |-> TRUE]>>

\* group(1) of the pattern at label position i: the text after the label
\* and the white space that follows it, up to the first ending character
\* (the group holds at least one character); None when the pattern does not
\* match there.  Patterns 1 and 2 also end at the end of the text.
title_group(toks, pat, i) ==
    LET after == {j \in (i + 1)..Len(toks) : toks[j].t # "nl"}
    IN  IF after = {} THEN None
        ELSE LET rest == RenderToks(SubSeq(toks, MinOf(after), Len(toks)))
                 e == FindChar(rest, pat.ends, 2)
             IN  IF e # 0 THEN [group |-> SubSeq(rest, 1, e - 1)]
                 ELSE IF pat.needs_end THEN None
                 ELSE [group |-> rest]

\* re.search: the leftmost position where the pattern matches.
title_search(toks, pat) ==
    LET hits == {i \in 1..Len(toks) :
                    /\ toks[i].t = "label"
                    /\ Lower(toks[i].s) \in pat.labels
                    /\ title_group(toks, pat, i) # None}
    IN  IF hits = {} THEN None ELSE title_group(toks, pat, MinOf(hits))

\* Lines 950-955: the first pattern, in list order, that matches.
RECURSIVE first_title_match(_, _)
first_title_match(toks, k) ==
    IF k > Len(title_patterns) THEN "Repository Enhancement Suggestion"
    ELSE LET m == title_search(toks, title_patterns[k])
         IN  IF m # None THEN StripStr(m.group) ELSE first_title_match(toks, k + 1)

MaxTitleLen == 80
TitleKeep == 77

\* Lines 960-961.
truncate_title(title) ==
    IF Len(title) > MaxTitleLen THEN SubSeq(title, 1, TitleKeep) \o "..." ELSE title

\* Lines 957-961: drop leading non-word characters, keep what precedes the
\* first full stop, truncate.
clean_title(title) ==
    LET a == FindChar(title, WordChars, 1)
        t1 == IF a = 0 THEN "" ELSE SubSeq(title, a, Len(title))
        dot == FindChar(t1, {"."}, 1)
        t2 == IF dot = 0 THEN t1 ELSE SubSeq(t1, 1, dot - 1)
    IN  truncate_title(t2)

\* Lines 963-968.
direct_difficulty(toks) ==
    IF HasWord(toks, {"easy", "simple", "basic"}) THEN "Easy"
    ELSE IF HasWord(toks, {"hard", "difficult", "complex", "advanced"}) THEN "Hard"
    ELSE "Medium"

\* Lines 970-974.
direct_priority(toks) ==
    IF HasWordBeforePriority(toks, {"critical", "urgent", "high"}) THEN "High"
    ELSE IF HasWordBeforePriority(toks, {"low", "minor"}) THEN "Low"
    ELSE "Medium"

\* Lines 941-993: the manual extraction.
manual_extraction(toks, repo_url) ==
    [title |-> JStr(clean_title(first_title_match(toks, 1))),
     body |-> JStr("Based on analysis of " \o repo_url \o ":\n\n" \o RenderToks(toks)
                   \o "\n\n---\n*Generated by ASI:One direct analysis*"),
     difficulty |-> JStr(direct_difficulty(toks)),
     priority |-> JStr(direct_priority(toks)),
     labels |-> StrList(<<"enhancement", "ai-suggested">>),
     implementation_estimate |-> JStr("1-3 weeks"),
     technical_requirements |->
        StrList(<<"Analysis of existing codebase", "Feature design and planning",
                  "Implementation and testing">>),
     acceptance_criteria |->
        StrList(<<"Feature meets requirements", "Code passes all tests",
                  "Documentation is updated">>)]

\* Lines 926-930: the candidate, without the ordering guard of the strict
\* extractor: cleaned_response[start_brace:end_brace + 1] is the empty str
\* when the last } precedes the first {.
direct_json_candidate(cleaned_response) ==
    LET start_brace == FirstPos(cleaned_response, {"lbrace"})
        end_brace == LastPos(cleaned_response, {"rbrace"})
    IN  IF start_brace # 0 /\ end_brace # 0
        THEN [found |-> TRUE, json_str |-> SubSeq(cleaned_response, start_brace, end_brace)]
        ELSE [found |-> FALSE, json_str |-> <<>>]

\* A response that is not a str: response.strip() raises inside the try
\* (caught, line 938), then re.search(pattern, response) raises outside it.
parse_direct_response(resp, repo_url) ==
    IF resp.kind # "text" THEN Exception
    ELSE LET cleaned_response == strip_code_fence(StripToks(resp.toks))
             candidate == direct_json_candidate(cleaned_response)
             issue_data == IF candidate.found THEN json_loads(candidate.json_str) ELSE None
         IN  IF issue_data # None
             THEN validate_and_fix_issue_data(issue_data)
             ELSE manual_extraction(resp.toks, repo_url)

(***************************************************************************)
(* create_smart_fallback_from_responses                                    *)
(***************************************************************************)
\* " ".join(strs)
RECURSIVE JoinBlank(_)
JoinBlank(strs) ==
    IF strs = <<>> THEN ""
    ELSE Head(strs) \o (IF Len(strs) > 1 THEN " " ELSE "") \o JoinBlank(Tail(strs))

\* The keyword table of lines 522-531, in insertion order.
feature_patterns ==
    <<[feature |-> "authentication", keywords |-> <<"auth", "login", "user", "session", "oauth", "jwt">>],
      [feature |-> "search", keywords |-> <<"search", "filter", "find", "query", "lookup">>],
      [feature |-> "realtime", keywords |-> <<"realtime", "websocket", "live", "push", "notification">>],
      [feature |-> "api", keywords |-> <<"api", "rest", "endpoint", "rate limit", "caching">>],
      [feature |-> "ui", keywords |-> <<"ui", "interface", "frontend", "user experience", "ux">>],
      [feature |-> "database", keywords |-> <<"database", "db", "storage", "persistence", "data">>],
      [feature |-> "testing", keywords |-> <<"test", "testing", "unit test", "integration">>],
      [feature |-> "security", keywords |-> <<"security", "secure", "encryption", "validation">>]>>

\* Line 536: the number of keywords of the entry that occur in the text.
feature_score(combined_text, entry) ==
    Cardinality({i \in 1..Len(entry.keywords) : Contains(combined_text, entry.keywords[i])})

best_feature_of_last(combined_text) ==
    LET score == [i \in 1..Len(feature_patterns) |->
                    feature_score(combined_text, feature_patterns[i])]
        scored == {i \in 1..Len(feature_patterns) : score[i] > 0}
    IN  IF scored = {} THEN "search"
        ELSE LET top == {i \in scored : \A j \in scored : score[j] <= score[i]}
             IN  feature_patterns[MaxOf(top)].feature

\* Lines 534-546: max() over the entries with a positive score returns the
\* first entry, in insertion order, that has the highest score.
best_feature_of(combined_text) ==
    LET score == [i \in 1..Len(feature_patterns) |->
                    feature_score(combined_text, feature_patterns[i])]
        scored == {i \in 1..Len(feature_patterns) : score[i] > 0}
    IN  IF scored = {} THEN "search"
        ELSE LET top == {i \in scored : \A j \in scored : score[j] <= score[i]}
             IN  feature_patterns[MinOf(top)].feature

\* Lines 549-574.
feature_templates ==
    [authentication |->
        [title |-> "Implement User Authentication System",
         body |-> "Add comprehensive user authentication with secure login, registration, and session management to protect user data and enable personalized experiences.",
         difficulty |-> "Medium", priority |-> "High"],
     search |->
        [title |-> "Add Advanced Search and Filtering Capabilities",
         body |-> "Implement full-text search with intelligent filtering to help users quickly find relevant content and improve overall user experience.",
         difficulty |-> "Easy", priority |-> "Medium"],
     realtime |->
        [title |-> "Add Real-time Updates and Notifications",
         body |-> "Implement WebSocket-based real-time updates to keep users informed of changes and improve application responsiveness.",
         difficulty |-> "Hard", priority |-> "Medium"],
     api |->
        [title |-> "Implement REST API with Rate Limiting",
         body |-> "Create a robust REST API with proper rate limiting, caching, and documentation to enable third-party integrations and improve performance.",
         difficulty |-> "Medium", priority |-> "Medium"]]

create_smart_fallback_from_responses(responses, repo_url) ==
    LET combined_text == Lower(JoinBlank(responses))
        best_feature == best_feature_of(combined_text)
        selected_template ==
            IF best_feature \in DOMAIN feature_templates
            THEN feature_templates[best_feature]
            ELSE feature_templates["search"]
    IN  [title |-> JStr(selected_template.title),
         body |-> JStr(selected_template.body \o "\n\nBased on analysis of: " \o repo_url
                       \o "\n\nThis suggestion was derived from analyzing multiple AI agent responses that highlighted the importance of "
                       \o best_feature \o " functionality."),
         difficulty |-> JStr(selected_template.difficulty),
         priority |-> JStr(selected_template.priority),
         labels |-> StrList(<<"enhancement", "ai-generated", best_feature>>),
         implementation_estimate |-> JStr("2-4 weeks"),
         technical_requirements |->
            StrList(<<"Research " \o best_feature \o " best practices",
                      "Design system architecture", "Implement core functionality",
                      "Add comprehensive testing">>),
         acceptance_criteria |->
            StrList(<<selected_template.title \o " is fully implemented",
                      "All functionality works as expected",
                      "Tests pass with >90% coverage", "Documentation is complete">>)]

(***************************************************************************)
(* get_session_id / ask_asi_one                                            *)
(***************************************************************************)
\* uuid.uuid4(): the n-th identifier drawn (two draws never collide).
Uuid(n) == <<"uuid", n>>

\* A conversation id chosen by a caller.
Conv(i) == <<"conv", i>>

\* Lines 139-145 run without interruption: the session id returned, the map
\* and the identifier counter afterwards.
get_session_id_fresh(map, next, conv_id) ==
    [sid |-> Uuid(next), map |-> SetKey(map, conv_id, Uuid(next)), next |-> next + 1]

get_session_id(map, next, conv_id) ==
    IF conv_id \in DOMAIN map
    THEN [sid |-> map[conv_id], map |-> map, next |-> next]
    ELSE [sid |-> Uuid(next), map |-> SetKey(map, conv_id, Uuid(next)), next |-> next + 1]

EmptyMap == [c \in {} |-> Uuid(0)]

(***************************************************************************)
(* synthesize_analysis                                                     *)
(***************************************************************************)
MaxAttempts == 3

synth_required_fields == {"title", "body", "difficulty", "priority", "labels"}

\* Lines 457-491 on a str response: the normalized record, or None when the
\* attempt falls through to line 493 (no candidate, JSONDecodeError, or a
\* required field missing).
synth_normalize(resp) ==
    LET cleaned_response == strip_code_fence(StripToks(resp.toks))
        candidate == json_candidate(cleaned_response)
    IN  IF ~candidate.found THEN None
        ELSE LET issue_data == json_loads(candidate.json_str)
             IN  IF issue_data = None THEN None
                 ELSE IF synth_required_fields \subseteq DOMAIN issue_data
                 THEN validate_and_fix_issue_data(issue_data)
                 ELSE None

\* One pass of the loop body after the model call (lines 453-506): the
\* call raised (requests exception), or it returned a null content and
\* response[:200] raises TypeError, or it returned a str that normalizes or
\* does not.
synth_attempt(resp) ==
    CASE resp.kind = "raise" -> [v |-> "exception", exc |-> "RequestException", rec |-> None]
      [] resp.kind = "none"  -> [v |-> "exception", exc |-> "TypeError", rec |-> None]
      [] resp.kind = "text"  ->
            LET rec == synth_normalize(resp)
            IN  IF rec = None
                THEN [v |-> "extraction_failure", exc |-> "", rec |-> None]
                ELSE [v |-> "ok", exc |-> "", rec |-> rec]

\* Line 505: except Exception catches whatever the loop body raises.
synth_except_decode_only(exc) == exc = "JSONDecodeError"

synth_except_catches(exc) == TRUE

\* Line 447, for attempt in range(3): where control goes after a failed
\* attempt.
synth_after_failure_inclusive(failed_attempt) ==
    IF failed_attempt + 1 <= MaxAttempts THEN "call" ELSE "fallback"

synth_after_failure(failed_attempt) ==
    IF failed_attempt + 1 < MaxAttempts THEN "call" ELSE "fallback"

\* Line 486, return issue_data: where control goes after a success.
synth_after_success_continue(ok_attempt) == synth_after_failure(ok_attempt)

synth_after_success(ok_attempt) == "done"

(***************************************************************************)
(* Inputs                                                                  *)
(***************************************************************************)
RepoUrl == "https://github.com/acme/scraper-bot"

LongTitle == "Dark mode toggle for the dashboard settings page with persisted per-user preferences"
Title80 == "Dark mode toggle for the dashboard settings page with persisted user preferences"

\* A complete record with valid values.
base_record ==
    [title |-> JStr("Dark mode toggle"),
     body |-> JStr("Let users switch themes"),
     difficulty |-> JStr("Hard"),
     priority |-> JStr("Low"),
     labels |-> StrList(<<"frontend">>),
     implementation_estimate |-> JStr("1 week"),
     technical_requirements |-> StrList(<<"Theme tokens">>),
     acceptance_criteria |-> StrList(<<"Theme persists">>)]

\* What a field of a model-written object may hold instead: nothing (the key
\* is absent), or a value of any JSON type.
Absent == [t |-> "absent", s |-> "", n |-> 0, l |-> <<>>]

FieldAlternatives ==
    {Absent, JNull, JNum(5), JStr(""), JStr("High"), JStr("medium"), JStr(LongTitle),
     JList(<<>>), JList(<<JStr("x"), JNum(7)>>), JDict(1)}

\* base_record with the fields of S replaced as f says.
Vary(S, f) ==
    [k \in {x \in FieldSet : x \notin S \/ f[x] # Absent} |->
        IF k \in S THEN f[k] ELSE base_record[k]]

\* The records that differ from base_record in at most n fields.
VariedRecords(n) ==
    UNION {{Vary(S, f) : f \in [S -> FieldAlternatives]} :
           S \in {T \in SUBSET FieldSet : Cardinality(T) <= n}}

\* The members of an object, written in canonical field order.
RECURSIVE MembersFrom(_, _)
MembersFrom(d, i) ==
    IF i > Len(CanonicalFields) THEN <<>>
    ELSE (IF CanonicalFields[i] \in DOMAIN d
          THEN <<Member(CanonicalFields[i], d[CanonicalFields[i]])>> ELSE <<>>)
         \o MembersFrom(d, i + 1)

Members(d) == MembersFrom(d, 1)

\* The ways a model wraps (or spoils) the object it was asked for.
Shapes ==
    {"plain", "prose", "fenced", "fence_open", "fence_inner", "unclosed", "reversed",
     "garbled", "two_objects", "repeated_key", "labelled", "imperative"}

Wrap(shape, d) ==
    LET M == Members(d)
    IN  CASE shape = "plain" -> <<LBrace>> \o M \o <<RBrace>>
          [] shape = "prose" ->
                <<NL, Prose("Sure, here it is"), NL, LBrace>> \o M
                \o <<RBrace, NL, Prose("Hope this helps"), NL>>
          [] shape = "fenced" ->
                <<Prose("Result"), NL, FenceJson, NL, LBrace>> \o M \o <<RBrace, NL, Fence>>
          [] shape = "fence_open" -> <<FenceJson, NL, LBrace>> \o M \o <<RBrace>>
          [] shape = "fence_inner" ->
                <<LBrace, Prose("draft"), RBrace, NL, FenceJson, LBrace>> \o M
                \o <<RBrace, Fence, RBrace>>
          [] shape = "unclosed" -> <<LBrace>> \o M
          [] shape = "reversed" -> <<RBrace, Prose("then"), LBrace>> \o M
          [] shape = "garbled" -> <<LBrace>> \o M \o <<Prose("and so on"), RBrace>>
          [] shape = "two_objects" -> <<LBrace>> \o M \o <<RBrace, LBrace, RBrace>>
          [] shape = "repeated_key" ->
                <<LBrace>> \o M \o <<Member("difficulty", JStr("EASY")), RBrace>>
          [] shape = "labelled" ->
                <<Prose("My take"), NL, Label("Enhancement:"), Prose("-- Offline sync. Simple"),
                  NL, Prose("This is urgent, HIGH priority"), NL, LBrace>> \o M
          [] shape = "imperative" ->
                <<Prose("You could"), Label("implement"), Prose(LongTitle), NL,
                  Prose("It is complex but of minor priority"), LBrace>> \o M

\* Texts without any object.
ProseTexts ==
    {<<>>,
     <<Prose("No idea")>>,
     <<Label("Title:"), Prose(Title80)>>,
     <<Label("Feature:"), NL, NL, Prose(LongTitle \o "."), NL, Prose("basic")>>,
     <<Label("Recommendation:"), NL>>,
     <<Label("Suggest:"), Prose("Rate limiter"), NL, Label("Title:"), Prose("Audit log")>>,
     <<Label("Create"), Prose("a plugin system"), Label("Feature:"), Prose("difficult one")>>,
     <<Label("Add"), Prose("caching. It is low priority work")>>}

\* The opinions of the advisors.
Opinions ==
    {"Add OAuth login; Authentication matters",
     "Expose a REST endpoint",
     "Looks fine"}

MaxOpinions == 2

OpinionLists == UNION {[1..n -> Opinions] : n \in 0..MaxOpinions}

\* What a model call of a synthesis attempt may produce.
ModelOutcomes ==
    {Raised, NoContent,
     Text(<<Prose("I cannot help with that")>>),
     Text(Wrap("plain", base_record)),
     Text(Wrap("fenced", Vary({"difficulty", "title"},
                              [difficulty |-> JStr("medium"), title |-> JStr(LongTitle)]))),
     Text(Wrap("plain", Vary({"implementation_estimate", "technical_requirements",
                              "acceptance_criteria"},
                             [implementation_estimate |-> Absent,
                              technical_requirements |-> Absent,
                              acceptance_criteria |-> Absent]))),
     Text(Wrap("prose", Vary({"labels", "implementation_estimate",
                              "technical_requirements", "acceptance_criteria"},
                             [labels |-> Absent,
                              implementation_estimate |-> Absent,
                              technical_requirements |-> Absent,
                              acceptance_criteria |-> Absent]))),
     Text(Wrap("plain", Vary({"title"}, [title |-> Absent]))),
     Text(Wrap("garbled", base_record))}

(***************************************************************************)
(* Specification of synthesize_analysis                                    *)
(***************************************************************************)
Event(e, n) == [e |-> e, n |-> n]

NoRequest == [kind |-> "none"]

Init ==
    /\ pc = "start"
    /\ attempt = 0
    /\ calls = 0
    /\ response = NoContent
    /\ synthesis_prompt = "initial"
    /\ result = None
    /\ outcome = "pending"
    /\ agent_responses \in OpinionLists
    /\ events = <<>>
    /\ session_map = EmptyMap
    /\ uuid_next = 1
    /\ space = <<>>
    /\ discovered_agents = <<>>
    /\ selected_agents = <<>>
    /\ req = NoRequest
    /\ out2 = None

\* Lines 414-447: the prompt is built and the loop entered.
SynthStart ==
    /\ pc = "start"
    /\ pc' = "call"
    /\ attempt' = 0
    /\ synthesis_prompt' = "initial"
    /\ UNCHANGED <<space, discovered_agents, selected_agents>>
    /\ UNCHANGED <<calls, response, result, outcome, agent_responses, events,
                   session_map, uuid_next, req, out2>>

\* Lines 451-453: a fresh conversation id, its session, and the model call,
\* which returns or raises.
AskAsiOne ==
    /\ pc = "call"
    /\ \E o \in ModelOutcomes :
        LET conv_id == Uuid(uuid_next)
            s == get_session_id(session_map, uuid_next + 1, conv_id)
        IN  /\ session_map' = s.map
            /\ uuid_next' = s.next
            /\ response' = o
    /\ calls' = calls + 1
    /\ events' = Append(events, Event("call", attempt + 1))
    /\ pc' = "returned"
    /\ UNCHANGED <<space, discovered_agents, selected_agents>>
    /\ UNCHANGED <<attempt, synthesis_prompt, result, outcome, agent_responses, req, out2>>

\* Lines 455-506: the rest of the loop body for this attempt.
SynthAttempt ==
    /\ pc = "returned"
    /\ LET a == synth_attempt(response)
       IN  CASE a.v = "ok" ->
                 /\ pc' = synth_after_success(attempt)
                 /\ attempt' = IF synth_after_success(attempt) = "done"
                               THEN attempt ELSE attempt + 1
                 /\ result' = a.rec
                 /\ outcome' = IF synth_after_success(attempt) = "done"
                               THEN "success" ELSE outcome
                 /\ events' = Append(events, Event("ok", attempt + 1))
                 /\ UNCHANGED synthesis_prompt
             [] a.v = "extraction_failure" ->
                 /\ pc' = synth_after_failure(attempt)
                 /\ attempt' = attempt + 1
                 /\ synthesis_prompt' = IF attempt < 2 THEN "forceful" ELSE synthesis_prompt
                 /\ events' = Append(events, Event("extraction_failure", attempt + 1))
                 /\ UNCHANGED <<result, outcome>>
             [] a.v = "exception" ->
                 IF synth_except_catches(a.exc)
                 THEN /\ pc' = synth_after_failure(attempt)
                      /\ attempt' = attempt + 1
                      /\ events' = Append(events, Event("exception", attempt + 1))
                      /\ UNCHANGED <<result, outcome, synthesis_prompt>>
                 ELSE /\ pc' = "done"
                      /\ outcome' = "raised"
                      /\ result' = Exception
                      /\ events' = Append(events, Event("exception", attempt + 1))
                      /\ UNCHANGED <<attempt, synthesis_prompt>>
    /\ UNCHANGED <<space, discovered_agents, selected_agents>>
    /\ UNCHANGED <<calls, response, agent_responses, session_map, uuid_next, req, out2>>

\* Lines 508-510: all attempts failed.
SynthFallback ==
    /\ pc = "fallback"
    /\ result' = create_smart_fallback_from_responses(agent_responses, RepoUrl)
    /\ outcome' = "fallback"
    /\ pc' = "done"
    /\ UNCHANGED <<space, discovered_agents, selected_agents>>
    /\ UNCHANGED <<attempt, calls, response, synthesis_prompt, agent_responses, events,
                   session_map, uuid_next, req, out2>>

Next == SynthStart \/ AskAsiOne \/ SynthAttempt \/ SynthFallback

Spec == Init /\ [][Next]_vars

(***************************************************************************)
(* Specification of the normalizer functions, each applied to one input    *)
(***************************************************************************)
MaxVariedInText == 1

NormalizerInputs ==
    {[resp |-> Text(Wrap(shape, d)), ops |-> <<>>] :
        shape \in Shapes, d \in VariedRecords(MaxVariedInText)}
    \cup {[resp |-> Text(p), ops |-> <<>>] : p \in ProseTexts}
    \cup {[resp |-> NoContent, ops |-> ops] : ops \in OpinionLists}

Idle ==
    /\ attempt = 0
    /\ calls = 0
    /\ response = NoContent
    /\ synthesis_prompt = "initial"
    /\ outcome = "pending"
    /\ agent_responses = <<>>
    /\ events = <<>>
    /\ session_map = EmptyMap
    /\ uuid_next = 1
    /\ space = <<>>
    /\ discovered_agents = <<>>
    /\ selected_agents = <<>>

InitNormalize ==
    /\ Idle
    /\ pc = "input"
    /\ req \in NormalizerInputs
    /\ result = None
    /\ out2 = None

Applied(fn, value) ==
    /\ pc' = fn
    /\ result' = value
    /\ UNCHANGED <<space, discovered_agents, selected_agents>>
    /\ UNCHANGED <<attempt, calls, response, synthesis_prompt, outcome, agent_responses,
                   events, session_map, uuid_next, req, out2>>

ExtractJson ==
    /\ pc = "input"
    /\ Applied("extract", extract_json_from_response(req.resp))

SynthNormalize ==
    /\ pc = "input"
    /\ Applied("synth", synth_attempt(req.resp).rec)

ParseDirect ==
    /\ pc = "input"
    /\ Applied("direct", parse_direct_response(req.resp, RepoUrl))

SmartFallback ==
    /\ pc = "input"
    /\ Applied("fallback", create_smart_fallback_from_responses(req.ops, RepoUrl))

NextNormalize == ExtractJson \/ SynthNormalize \/ ParseDirect \/ SmartFallback

SpecNormalize == InitNormalize /\ [][NextNormalize]_vars

\* The object the JSON path reads out of a response, None when it reads none.
ParsedObject(resp) ==
    IF resp.kind # "text" THEN None
    ELSE LET candidate == json_candidate(strip_code_fence(StripToks(resp.toks)))
         IN  IF candidate.found THEN json_loads(candidate.json_str) ELSE None

IsRecord(r) == "title" \in DOMAIN r

(***************************************************************************)
(* Specification of the defaulting pass, applied twice                     *)
(***************************************************************************)
MaxVaried == 2

InitDefaulting ==
    /\ Idle
    /\ pc = "input"
    /\ req \in {[rec |-> d] : d \in VariedRecords(MaxVaried)}
    /\ result = None
    /\ out2 = None

FirstPass ==
    /\ pc = "input"
    /\ pc' = "pass1"
    /\ result' = validate_and_fix_issue_data(req.rec)
    /\ UNCHANGED <<space, discovered_agents, selected_agents>>
    /\ UNCHANGED <<attempt, calls, response, synthesis_prompt, outcome, agent_responses,
                   events, session_map, uuid_next, req, out2>>

SecondPass ==
    /\ pc = "pass1"
    /\ pc' = "pass2"
    /\ out2' = validate_and_fix_issue_data(result)
    /\ UNCHANGED <<space, discovered_agents, selected_agents>>
    /\ UNCHANGED <<attempt, calls, response, synthesis_prompt, outcome, agent_responses,
                   events, session_map, uuid_next, req, result>>

NextDefaulting == FirstPass \/ SecondPass

SpecDefaulting == InitDefaulting /\ [][NextDefaulting]_vars

(***************************************************************************)
(* Specification of the session map under sequential calls                 *)
(***************************************************************************)
NumConvIds == 2
MaxSessionCalls == 4

ConvIds == {Conv(i) : i \in 1..NumConvIds}

InitSession ==
    /\ Idle
    /\ pc = "idle"
    /\ req = NoRequest
    /\ result = None
    /\ out2 = None

\* get_session_id(conv_id), lines 139-145.
CallGetSessionId ==
    /\ calls < MaxSessionCalls
    /\ \E c \in ConvIds :
        LET s == get_session_id(session_map, uuid_next, c)
        IN  /\ session_map' = s.map
            /\ uuid_next' = s.next
            /\ result' = [sid |-> s.sid]
            /\ req' = [kind |-> "get_session_id", conv |-> c]
            /\ events' = Append(events, [conv |-> c, sid |-> s.sid])
    /\ calls' = calls + 1
    /\ UNCHANGED <<space, discovered_agents, selected_agents>>
    /\ UNCHANGED <<pc, attempt, response, synthesis_prompt, outcome, agent_responses, out2>>

\* ask_asi_one(conv_id, messages), lines 147-220: the session id is looked
\* up or created first, then the request returns a content or raises.
CallAskAsiOne ==
    /\ calls < MaxSessionCalls
    /\ \E c \in ConvIds, o \in {Raised, NoContent, Text(<<Prose("ok")>>)} :
        LET s == get_session_id(session_map, uuid_next, c)
        IN  /\ session_map' = s.map
            /\ uuid_next' = s.next
            /\ result' = [sid |-> s.sid]
            /\ req' = [kind |-> "ask_asi_one", conv |-> c]
            /\ events' = Append(events, [conv |-> c, sid |-> s.sid])
            /\ response' = o
    /\ calls' = calls + 1
    /\ UNCHANGED <<space, discovered_agents, selected_agents>>
    /\ UNCHANGED <<pc, attempt, synthesis_prompt, outcome, agent_responses, out2>>

NextSession == CallGetSessionId \/ CallAskAsiOne

SpecSession == InitSession /\ [][NextSession]_vars

(***************************************************************************)
(* Specification of get_session_id called from several threads             *)
(*                                                                         *)
(* The method holds no lock: between any two of its lines another thread   *)
(* may run.  Each dict operation (get, item assignment) is one step.       *)
(***************************************************************************)
NumThreads == 2

Threads == 1..NumThreads

\* The local variable sid while it is None.
NoSid == Uuid(0)

InitRace ==
    /\ Idle
    /\ pc = [t \in Threads |-> "idle"]
    /\ req = [t \in Threads |-> Conv(0)]
    /\ out2 = [t \in Threads |-> NoSid]
    /\ result = [t \in Threads |-> NoSid]

RaceUnchanged ==
    /\ UNCHANGED <<space, discovered_agents, selected_agents>>
    /\ UNCHANGED <<attempt, calls, response, synthesis_prompt, outcome, agent_responses, events>>

\* A thread enters get_session_id(conv_id).
RaceCall(t) ==
    /\ pc[t] = "idle"
    /\ \E c \in ConvIds : req' = [req EXCEPT ![t] = c]
    /\ pc' = [pc EXCEPT ![t] = "l141"]
    /\ UNCHANGED <<session_map, uuid_next, out2, result>>
    /\ RaceUnchanged

\* Line 141: sid = self.session_map.get(conv_id)
RaceLookup(t) ==
    /\ pc[t] = "l141"
    /\ out2' = [out2 EXCEPT ![t] =
                   IF req[t] \in DOMAIN session_map THEN session_map[req[t]] ELSE NoSid]
    /\ pc' = [pc EXCEPT ![t] = "l142"]
    /\ UNCHANGED <<session_map, uuid_next, req, result>>
    /\ RaceUnchanged

\* Lines 142-143: if sid is None: sid = str(uuid.uuid4())
RaceNewSid(t) ==
    /\ pc[t] = "l142"
    /\ IF out2[t] = NoSid
       THEN /\ out2' = [out2 EXCEPT ![t] = Uuid(uuid_next)]
            /\ uuid_next' = uuid_next + 1
            /\ pc' = [pc EXCEPT ![t] = "l144"]
       ELSE /\ pc' = [pc EXCEPT ![t] = "l145"]
            /\ UNCHANGED <<out2, uuid_next>>
    /\ UNCHANGED <<session_map, req, result>>
    /\ RaceUnchanged

\* Line 144: self.session_map[conv_id] = sid
RaceStore(t) ==
    /\ pc[t] = "l144"
    /\ session_map' = SetKey(session_map, req[t], out2[t])
    /\ pc' = [pc EXCEPT ![t] = "l145"]
    /\ UNCHANGED <<uuid_next, req, out2, result>>
    /\ RaceUnchanged

\* Line 145: return sid
RaceReturn(t) ==
    /\ pc[t] = "l145"
    /\ result' = [result EXCEPT ![t] = out2[t]]
    /\ pc' = [pc EXCEPT ![t] = "done"]
    /\ UNCHANGED <<session_map, uuid_next, req, out2>>
    /\ RaceUnchanged

NextRace ==
    \E t \in Threads :
        RaceCall(t) \/ RaceLookup(t) \/ RaceNewSid(t) \/ RaceStore(t) \/ RaceReturn(t)

SpecRace == InitRace /\ [][NextRace]_vars

(***************************************************************************)
(* Properties of synthesize_analysis                                       *)
(***************************************************************************)
EventsOf(kind) == {i \in 1..Len(events) : events[i].e = kind}

\* C1: when three attempts each end in an extraction failure, the engine has
\* made exactly three model calls, starts no fourth, raises nothing, and
\* returns the fallback record computed from the agent opinions alone.
C1_ThreeFailuresGiveFallback ==
    /\ Cardinality(EventsOf("extraction_failure")) <= MaxAttempts
    /\ Cardinality(EventsOf("extraction_failure")) = MaxAttempts =>
        /\ calls = MaxAttempts
        /\ pc \in {"fallback", "done"}
        /\ outcome # "raised"
        /\ pc = "done" =>
            /\ outcome = "fallback"
            /\ result = create_smart_fallback_from_responses(agent_responses, RepoUrl)

C1_Witness ==
    /\ pc = "done"
    /\ Cardinality(EventsOf("extraction_failure")) = MaxAttempts

\* C2: an exception raised by the model call of one attempt ends only that
\* attempt: the next attempt follows while attempts remain, nothing is
\* raised to the caller, and the engine ends with a Success or a Fallback
\* record.
C2_ExceptionLosesOnlyItsAttempt ==
    /\ outcome # "raised"
    /\ pc = "done" => outcome \in {"success", "fallback"} /\ IsRecord(result)
    /\ \A i \in EventsOf("exception") :
        /\ i > 1
        /\ events[i - 1] = Event("call", events[i].n)
        /\ IF events[i].n < MaxAttempts
           THEN IF i < Len(events)
                THEN events[i + 1] = Event("call", events[i].n + 1)
                ELSE pc = "call" /\ attempt = events[i].n
           ELSE i = Len(events) \/ pc = "done"

C2_Witness ==
    /\ pc = "done"
    /\ outcome = "success"
    /\ EventsOf("exception") # {}

\* C3: the attempts run one after another, attempt n+1 starting only after
\* attempt n has failed, and the first attempt whose output normalizes
\* ends the engine with that record; no later attempt is made.
C3_SequentialStopAtFirstSuccess ==
    /\ calls = Cardinality(EventsOf("call"))
    /\ \A i \in EventsOf("call") :
        IF events[i].n = 1
        THEN i = 1
        ELSE /\ i > 1
             /\ events[i - 1].e \in {"extraction_failure", "exception"}
             /\ events[i - 1].n = events[i].n - 1
    /\ \A i \in EventsOf("ok") :
        /\ i = Len(events)
        /\ pc = "done"
        /\ outcome = "success"
        /\ calls = events[i].n
        /\ result = synth_normalize(response)

C3_Witness ==
    /\ pc = "done"
    /\ outcome = "success"
    /\ calls = 2

\* C5: in synthesize_analysis an attempt whose output parses as a JSON
\* object is an extraction failure for missing fields only when one of
\* title, body, difficulty, priority is missing.
C5_FourMinimumFieldsSuffice ==
    (/\ Len(events) > 0
     /\ events[Len(events)].e \in {"ok", "extraction_failure"}
     /\ ParsedObject(response) # None)
    => (events[Len(events)].e = "ok"
        <=> required_fields \subseteq DOMAIN ParsedObject(response))

(***************************************************************************)
(* Properties of the normalizer functions                                  *)
(***************************************************************************)
NonEmptyList(v) == IsList(v) /\ v.l # <<>>

Complete(r) ==
    /\ FieldSet \subseteq DOMAIN r
    /\ InStrs(r.difficulty, Difficulties)
    /\ InStrs(r.priority, Priorities)
    /\ NonEmptyList(r.labels)
    /\ NonEmptyList(r.technical_requirements)
    /\ NonEmptyList(r.acceptance_criteria)

\* C4: extract_json_from_response returns either the failure value or a
\* record with all eight fields, valid enumerations and non-empty lists;
\* it raises nothing.
C4_ExtractReturnsFailureOrCompleteRecord ==
    pc = "extract" => result = None \/ Complete(result)

C4_Witness ==
    /\ pc = "extract"
    /\ result # None
    /\ result # ParsedObject(req.resp)

\* C6: applying the defaulting pass to its own output changes nothing, for
\* every input holding at least title, body, difficulty and priority.
C6_DefaultingIdempotent ==
    (pc = "pass2" /\ required_fields \subseteq DOMAIN req.rec) => out2 = result

C6_Witness ==
    /\ pc = "pass2"
    /\ required_fields \subseteq DOMAIN req.rec
    /\ result # req.rec

\* C7: on every normalization path the record's difficulty is one of
\* Easy, Medium, Hard and its priority one of Low, Medium, High, and on the
\* JSON paths a value outside the enumeration becomes Medium.
C7_EnumsAlwaysValid ==
    (pc \in {"extract", "synth", "direct", "fallback"} /\ IsRecord(result)) =>
        /\ InStrs(result.difficulty, Difficulties)
        /\ InStrs(result.priority, Priorities)
        /\ (pc # "fallback" /\ ParsedObject(req.resp) # None) =>
            LET d == ParsedObject(req.resp)
            IN  /\ ("difficulty" \in DOMAIN d /\ ~InStrs(d.difficulty, Difficulties))
                        => result.difficulty = JStr("Medium")
                /\ ("priority" \in DOMAIN d /\ ~InStrs(d.priority, Priorities))
                        => result.priority = JStr("Medium")

C7_Witness ==
    /\ pc = "direct"
    /\ ParsedObject(req.resp) # None
    /\ "difficulty" \in DOMAIN ParsedObject(req.resp)
    /\ ~InStrs(ParsedObject(req.resp).difficulty, Difficulties)
    /\ result.difficulty = JStr("Medium")

\* C8: the title of every record is a string of at most 80 characters, on
\* the JSON paths as well as on the regex path.
C8_TitleAtMost80 ==
    (pc \in {"extract", "synth", "direct"} /\ IsRecord(result) /\ result.title.t = "str")
        => Len(result.title.s) <= MaxTitleLen

(***************************************************************************)
(* Properties of the session map                                           *)
(***************************************************************************)
\* C10: under sequential calls an entry is created only by the first call
\* for a conversation id, every call returns the token stored for its id,
\* every later call for the id returns the same token, and entries are
\* never removed or changed.
C10_SessionCreatedOnceAndKept ==
    [][/\ \A c \in DOMAIN session_map :
            c \in DOMAIN session_map' /\ session_map'[c] = session_map[c]
       /\ req'.conv \in DOMAIN session_map => session_map' = session_map
       /\ DOMAIN session_map' = DOMAIN session_map \cup {req'.conv}
       /\ result'.sid = session_map'[req'.conv]
       /\ \A i \in 1..Len(events') :
            events'[i].conv = req'.conv => events'[i].sid = result'.sid]_vars

C10_Witness ==
    /\ Cardinality(DOMAIN session_map) = NumConvIds
    /\ \E i, j \in 1..Len(events) : i < j /\ events[i].conv = events[j].conv

\* C9: when several threads call get_session_id, all calls for the same
\* conversation id return the same token, and it is the token the map keeps.
C9_SameTokenPerConversation ==
    \A t1, t2 \in Threads :
        (pc[t1] = "done" /\ pc[t2] = "done" /\ req[t1] = req[t2]) =>
            /\ result[t1] = result[t2]
            /\ session_map[req[t1]] = result[t1]

(***************************************************************************)
(* analyze_repository_and_create_issue                                     *)
(***************************************************************************)
\* extract_repo_info, lines 748-759: the pattern
\*   github\.com[/:]([^/]+)/([^/]+?)(?:\.git)?/?(?:\?.*)?$
\* is searched in the URL; owner runs to the first slash, repo is the
\* shortest run after it that lets the rest of the pattern reach the end.
\* The result is the pair owner, repo or the ValueError of line 753.
extract_repo_info(repo_url) ==
    LET host == "github.com"
        \* /?(?:\?.*)?$ matches all of t
        Closes(t) == t = "" \/ t = "/" \/ CharAt(t, 1) = "?"
                     \/ (Len(t) >= 2 /\ SubSeq(t, 1, 2) = "/?")
        Parts(p) ==
            LET after == SubSeq(repo_url, p + Len(host) + 1, Len(repo_url))
                slash == FindChar(after, {"/"}, 1)
                owner == SubSeq(after, 1, slash - 1)
                t == SubSeq(after, slash + 1, Len(after))
                ks == {k \in 1..Len(t) :
                          /\ "/" \notin CharsOf(SubSeq(t, 1, k))
                          /\ LET r == SubSeq(t, k + 1, Len(t))
                             IN  \E g \in {"", ".git"} :
                                    /\ Len(r) >= Len(g)
                                    /\ SubSeq(r, 1, Len(g)) = g
                                    /\ Closes(SubSeq(r, Len(g) + 1, Len(r)))}
            IN  [ok |-> slash > 1 /\ ks # {}, owner |-> owner,
                 repo |-> IF ks = {} THEN "" ELSE SubSeq(t, 1, MinOf(ks))]
        starts == {p \in 1..(Len(repo_url) - Len(host)) :
                      /\ SubSeq(repo_url, p, p + Len(host) - 1) = host
                      /\ CharAt(repo_url, p + Len(host)) \in {"/", ":"}
                      /\ Parts(p).ok}
    IN  IF starts = {} THEN Exception
        ELSE LET m == Parts(MinOf(starts))
             IN  [owner |-> m.owner,
                  repo |-> IF Len(m.repo) >= 4
                              /\ SubSeq(m.repo, Len(m.repo) - 3, Len(m.repo)) = ".git"
                           THEN SubSeq(m.repo, 1, Len(m.repo) - 4) ELSE m.repo]

\* discover_analysis_agents, lines 227-233: the five queries, in order.
search_queries(repo_url) ==
    <<"analyze repository code structure and suggest features for " \o repo_url,
      "code analysis repository feature suggestions",
      "langchain code analyzer",
      "repository analysis AI agent",
      "GitHub repository feature enhancement">>

\* A variant that appends every agent that has an address.
RECURSIVE add_found_agents_all(_, _, _)
add_found_agents_all(all_agents, agents, query) ==
    IF agents = <<>> THEN all_agents
    ELSE add_found_agents_all(
            IF Head(agents).address # ""
            THEN Append(all_agents, [Head(agents) EXCEPT !.search_query = query])
            ELSE all_agents,
            Tail(agents), query)

\* Lines 246-253: the agents of one query result are appended unless their
\* address is empty or already seen; the query is recorded on the agent.
RECURSIVE add_found_agents(_, _, _)
add_found_agents(all_agents, agents, query) ==
    IF agents = <<>> THEN all_agents
    ELSE LET agent == Head(agents)
             unique_addresses == {all_agents[i].address : i \in 1..Len(all_agents)}
         IN  add_found_agents(
                IF agent.address # "" /\ agent.address \notin unique_addresses
                THEN Append(all_agents, [agent EXCEPT !.search_query = query])
                ELSE all_agents,
                Tail(agents), query)

\* Line 306: the pieces of indices_str between commas, stripped, that are
\* all digits, as integers.
RECURSIVE selected_indices(_)
selected_indices(indices_str) ==
    LET comma == FindChar(indices_str, {","}, 1)
        piece == StripStr(IF comma = 0 THEN indices_str
                          ELSE SubSeq(indices_str, 1, comma - 1))
        DigitOf(c) == CHOOSE d \in 0..9 : CharAt(Digits, d + 1) = c
        IntOf[n \in 0..Len(piece)] ==
            IF n = 0 THEN 0 ELSE 10 * IntOf[n - 1] + DigitOf(CharAt(piece, n))
        here == IF piece # "" /\ CharsOf(piece) \subseteq CharsOf(Digits)
                THEN <<IntOf[Len(piece)]>> ELSE <<>>
    IN  IF comma = 0 THEN here
        ELSE here \o selected_indices(SubSeq(indices_str, comma + 1, Len(indices_str)))

\* A variant of line 307 without the test 'i < len(agents)': agents[i]
\* raises IndexError for an index outside the list, the except of line 315
\* catches it and line 319 returns the first three.
agents_at_indices_unchecked(agents, indices) ==
    IF \E n \in 1..Len(indices) : indices[n] >= Len(agents)
    THEN SubSeq(agents, 1, IF Len(agents) < 3 THEN Len(agents) ELSE 3)
    ELSE [n \in 1..Len(indices) |-> agents[indices[n] + 1]]

\* Line 307: the agents at the indices that lie inside the list, in the
\* order of the indices.
agents_at_indices(agents, indices) ==
    LET kept == SelectSeq(indices, LAMBDA k : k < Len(agents))
    IN  [n \in 1..Len(kept) |-> agents[kept[n] + 1]]

\* select_best_agents, lines 264-319, given what the model call produced.
\* No agents: the empty list, without a model call.  A call that raises, a
\* null content (re.search raises TypeError) and a text without a match of
\* \[([\d,\s]+)\] give the first three agents.
select_best_agents(agents, resp) ==
    LET first3 == SubSeq(agents, 1, IF Len(agents) < 3 THEN Len(agents) ELSE 3)
    IN  IF agents = <<>> THEN <<>>
        ELSE IF resp.kind # "text" THEN first3
        ELSE LET text == RenderToks(resp.toks)
                 class == CharsOf(Digits) \cup {","} \cup SpaceChars
                 CloseOf(i) == SkipChars(text, class, i + 1)
                 opens == {i \in 1..Len(text) :
                              /\ CharAt(text, i) = "["
                              /\ CloseOf(i) > i + 1
                              /\ CloseOf(i) <= Len(text)
                              /\ CharAt(text, CloseOf(i)) = "]"}
             IN  IF opens = {} THEN first3
                 ELSE LET i == MinOf(opens)
                          indices == selected_indices(SubSeq(text, i + 1, CloseOf(i) - 1))
                      IN  agents_at_indices(agents, indices)

\* collect_agent_responses, lines 377-386: the feature lists random.choice
\* draws from.
feature_suggestions ==
    <<<<"Machine Learning Integration", "AI-powered content analysis", "Automated content moderation", "Smart recommendation engine">>,
      <<"Advanced Analytics Dashboard", "User behavior tracking", "Performance metrics visualization", "Custom reporting tools">>,
      <<"Mobile App Integration", "Progressive Web App features", "Offline synchronization", "Push notifications">>,
      <<"API Gateway and Microservices", "Service mesh architecture", "Container orchestration", "Auto-scaling capabilities">>,
      <<"Enhanced Security Features", "End-to-end encryption", "Advanced authentication", "Security audit logging">>,
      <<"Content Management System", "Rich text editor", "Media file handling", "Version control for content">>,
      <<"Social Features Integration", "User profiles and connections", "Comment and rating system", "Community moderation tools">>,
      <<"Data Export and Integration", "CSV/JSON export functionality", "Third-party API integrations", "Webhook support">>>>

\* Lines 392-407: the opinion written for one agent, from the feature list
\* and the three difficulties drawn (the indentation of the lines is left out).
simulated_response(agent_name, repo_url, selected_features, d) ==
    "\nAnalysis from " \o agent_name \o ":\n\nRepository Analysis for " \o repo_url
    \o ":\n\nSuggested Features:\n1. **" \o selected_features[1] \o "** (" \o d[1]
    \o " difficulty)\n- " \o selected_features[2]
    \o "\n- Advanced implementation with modern best practices\n\n2. **"
    \o selected_features[3] \o "** (" \o d[2] \o " difficulty)\n- " \o selected_features[4]
    \o "\n- Scalable architecture with performance optimization\n\n3. **Enhanced Developer Experience** ("
    \o d[3] \o " difficulty)\n- Automated testing and CI/CD pipeline\n- Code quality tools and documentation generation\n"

\* A variant that writes one opinion per distinct agent: an agent selected
\* twice is answered for once.
collect_once_per_agent(selected, repo_url, draw) ==
    LET firsts == SelectSeq([n \in 1..Len(selected) |-> n],
                            LAMBDA n : \A m \in 1..(n - 1) :
                                            selected[m] # selected[n])
    IN  [k \in 1..Len(firsts) |->
            simulated_response(selected[firsts[k]].name, repo_url,
                               feature_suggestions[draw[firsts[k]].f], draw[firsts[k]].d)]

\* collect_agent_responses, lines 367-412: the loop over selected_agents
\* appends one opinion per entry, in order; draw[n] holds what random.choice
\* returned for entry n.  wait_time is printed at line 362 and not waited
\* for, and the loop reads nothing but the agent's name.
collect_agent_responses(selected, repo_url, draw) ==
    [n \in 1..Len(selected) |->
        simulated_response(selected[n].name, repo_url,
                           feature_suggestions[draw[n].f], draw[n].d)]

\* create_github_payload, lines 1006 and 1009: '- ' + req raises TypeError
\* for an element of the two lists that is not a str.
payload_raises(issue_data) ==
    \E key \in {"technical_requirements", "acceptance_criteria"} :
        /\ key \in DOMAIN issue_data
        /\ \E i \in 1..Len(issue_data[key].l) : issue_data[key].l[i].t # "str"

\* synthesize_analysis as a whole, lines 447-510: outcomes[n] is what the
\* model call of attempt n produces if that attempt is made, and fallback
\* is the record create_smart_fallback_from_responses returns at line 510.
RECURSIVE synthesize_analysis(_, _, _)
synthesize_analysis(attempt_no, fallback, outcomes) ==
    LET a == synth_attempt(outcomes[attempt_no + 1])
        after == IF a.v = "ok" THEN synth_after_success(attempt_no)
                 ELSE IF a.v = "exception" /\ ~synth_except_catches(a.exc) THEN "raise"
                 ELSE synth_after_failure(attempt_no)
    IN  CASE after = "done" -> [rec |-> a.rec, calls |-> attempt_no + 1]
          [] after = "raise" -> [rec |-> Exception, calls |-> attempt_no + 1]
          [] after = "call" -> synthesize_analysis(attempt_no + 1, fallback, outcomes)
          [] after = "fallback" -> [rec |-> fallback, calls |-> attempt_no + 1]

\* Lines 810-812 and 816-818: the degrade to the direct strategy.
analyze_never_degrades(agents, next_stage) == next_stage

analyze_next_stage(agents, next_stage) ==
    IF agents = <<>> THEN "direct" ELSE next_stage

\* direct_synthesis_analysis, lines 855-909, given what its one model call
\* produced: the result record (the payload itself is left out of it).
direct_synthesis_analysis(repo_url, resp) ==
    LET repo_info == extract_repo_info(repo_url)
        issue_data == parse_direct_response(resp, repo_url)
    IN  IF repo_info = Exception \/ resp.kind = "raise" \/ issue_data = Exception
        THEN [success |-> FALSE, error |-> "Direct analysis failed"]
        ELSE IF payload_raises(issue_data)
        THEN [success |-> FALSE, error |-> "Direct analysis failed"]
        ELSE [success |-> TRUE,
              repository |-> repo_info.owner \o "/" \o repo_info.repo,
              analysis_method |-> "Direct ASI:One Analysis",
              synthesized_analysis |-> issue_data]

\* What the marketplace may hold: agents with an address, and one (0) without.
MarketAgent(i) ==
    [name |-> "Analyzer" \o NatToStr(i),
     address |-> IF i = 0 THEN "" ELSE "agent1q" \o NatToStr(i),
     search_query |-> ""]

\* What fetch.ai(query) may produce: an exception, a result without 'ais',
\* or a result with a list of agents.
FetchResults ==
    {[kind |-> "raise", ais |-> <<>>], [kind |-> "none", ais |-> <<>>]}
    \cup {[kind |-> "ais", ais |-> <<MarketAgent(0), MarketAgent(1), MarketAgent(2)>>]}

\* What the selection model call may produce.
SelectionOutcomes ==
    {Raised, NoContent} \cup
    {Text(<<Prose(t)>>) : t \in {"[0]", "[1, 0]", "I pick [0, 0, 3]", "[]", "[ ]", "[9]",
                                 "agents 0 and 1", "[0,,1 ]", "[a] then\n[ 1 ]"}}

\* Draws of random.choice in collect_agent_responses: the index of the
\* feature list and the three difficulties.
CollectDraws ==
    {[f |-> 1, d |-> <<"Easy", "Medium", "Hard">>],
     [f |-> 5, d |-> <<"Hard", "Hard", "Easy">>]}

\* What the model calls of the synthesis attempts may produce.
PipelineOutcomes ==
    {Raised, Text(Wrap("plain", base_record)),
     Text(Wrap("plain", Vary({"acceptance_criteria"},
                             [acceptance_criteria |-> JList(<<JStr("x"), JNum(7)>>)])))}

RepoUrls == {RepoUrl, "https://github.com/acme"}

\* The ask_asi_one calls of one stage: each draws a conversation id and a
\* session id (lines 298, 451, 884 and 139-145).
after_model_calls(map, next, n) ==
    [map |-> [c \in (DOMAIN map) \cup {Uuid(next + 2 * k) : k \in 0..(n - 1)} |->
                IF c \in DOMAIN map THEN map[c] ELSE Uuid(c[2] + 1)],
     next |-> next + 2 * n]

CountEvents(kind) == Cardinality({i \in 1..Len(events) : events[i].e = kind})

InitPipeline ==
    /\ Idle
    /\ pc = "analyze"
    /\ req \in {[kind |-> "analyze", repo_url |-> u] : u \in RepoUrls}
    /\ result = None
    /\ out2 = None

\* Lines 803-806: extract_repo_info; its ValueError is caught at line 848.
AnalyzeStart ==
    /\ pc = "analyze"
    /\ IF extract_repo_info(req.repo_url) = Exception
       THEN /\ pc' = "done"
            /\ outcome' = "error"
            /\ result' = [success |-> FALSE, error |-> "Invalid GitHub repository URL"]
       ELSE /\ pc' = "discover"
            /\ UNCHANGED <<outcome, result>>
    /\ UNCHANGED <<attempt, calls, response, synthesis_prompt, agent_responses, events,
                   session_map, uuid_next, req, out2, space, discovered_agents,
                   selected_agents>>

\* One iteration of the query loop of discover_analysis_agents (lines
\* 238-259), given what fetch.ai produced for the query; after the last
\* one, line 810 decides.
discover_query(f) ==
    /\ pc = "discover"
    /\ LET i == CountEvents("search") + 1
           queries == search_queries(req.repo_url)
       IN  /\ discovered_agents' =
                    IF f.kind = "ais"
                    THEN add_found_agents(discovered_agents, f.ais, queries[i])
                    ELSE discovered_agents
           /\ events' = Append(events, Event("search", i))
           /\ pc' = IF i < Len(queries) THEN "discover"
                    ELSE analyze_next_stage(discovered_agents', "select")
    /\ UNCHANGED <<attempt, calls, response, synthesis_prompt, result, outcome,
                   agent_responses, session_map, uuid_next, req, space, selected_agents>>

Discover == \E f \in FetchResults : discover_query(f) /\ UNCHANGED out2

\* select_best_agents (line 815) and the decision of line 816; the model is
\* called only for a non-empty list (lines 266-267).
Select ==
    /\ pc = "select"
    /\ \E o \in SelectionOutcomes :
        /\ response' = o
        /\ selected_agents' = select_best_agents(discovered_agents, o)
    /\ \E n \in {IF discovered_agents = <<>> THEN 0 ELSE 1} :
        /\ calls' = calls + n
        /\ session_map' = after_model_calls(session_map, uuid_next, n).map
        /\ uuid_next' = after_model_calls(session_map, uuid_next, n).next
    /\ events' = Append(events, Event("select", Len(selected_agents')))
    /\ pc' = analyze_next_stage(selected_agents', "dispatch")
    /\ UNCHANGED <<attempt, synthesis_prompt, result, outcome, agent_responses, req, out2,
                   space, discovered_agents>>

\* A variant in which a failed dispatch ends the run.
dispatch_until_failure(sent, i, n) ==
    IF ~sent THEN "done" ELSE IF i < n THEN "dispatch" ELSE "collect"

\* Lines 822-826: what query_agent returned for agent i of n is not looked
\* at; the loop goes on to the next agent, and after the last to collection.
dispatch_next(sent, i, n) == IF i < n THEN "dispatch" ELSE "collect"

\* One iteration of the loop of lines 822-823: query_agent sends (or
\* simulates) the request, or fails and returns None (lines 356-358).
QueryAgent ==
    /\ pc = "dispatch"
    /\ LET i == CountEvents("dispatch") + CountEvents("dispatch_failed") + 1
       IN  \E sent \in BOOLEAN :
                /\ events' = Append(events,
                                    Event(IF sent THEN "dispatch" ELSE "dispatch_failed", i))
                /\ pc' = dispatch_next(sent, i, Len(selected_agents))
    /\ UNCHANGED <<attempt, calls, response, synthesis_prompt, result, outcome,
                   agent_responses, session_map, uuid_next, req, out2, space,
                   discovered_agents, selected_agents>>

\* collect_agent_responses, lines 360-412.
Collect ==
    /\ pc = "collect"
    /\ \E draw \in [1..Len(selected_agents) -> CollectDraws] :
        agent_responses' = collect_agent_responses(selected_agents, req.repo_url, draw)
    /\ events' = Append(events, Event("collect", Len(selected_agents)))
    /\ pc' = "synthesize"
    /\ UNCHANGED <<attempt, calls, response, synthesis_prompt, result, outcome,
                   session_map, uuid_next, req, out2, space, discovered_agents,
                   selected_agents>>

\* Lines 828-846: synthesize_analysis, then the result record; an exception
\* of create_github_payload is caught at line 848.
Synthesize ==
    /\ pc = "synthesize"
    /\ \E fallback \in {create_smart_fallback_from_responses(agent_responses, req.repo_url)},
          repo_info \in {extract_repo_info(req.repo_url)},
          outcomes \in [1..MaxAttempts -> PipelineOutcomes] :
        \E s \in {synthesize_analysis(0, fallback, outcomes)} :
            /\ calls' = calls + s.calls
            /\ session_map' = after_model_calls(session_map, uuid_next, s.calls).map
            /\ uuid_next' = after_model_calls(session_map, uuid_next, s.calls).next
            /\ events' = Append(events, Event("synthesize", s.calls))
            /\ result' =
                IF s.rec = Exception \/ payload_raises(s.rec)
                THEN [success |-> FALSE, error |-> "TypeError"]
                ELSE [success |-> TRUE,
                      repository |-> repo_info.owner \o "/" \o repo_info.repo,
                      agents_discovered |-> Len(discovered_agents),
                      agents_used |-> Len(selected_agents),
                      selected_agents |->
                        [n \in 1..Len(selected_agents) |-> selected_agents[n].name],
                      synthesized_analysis |-> s.rec,
                      analysis_method |-> "Multi-Agent Synthesis"]
    /\ outcome' = "multi_agent"
    /\ pc' = "done"
    /\ UNCHANGED <<attempt, response, synthesis_prompt, agent_responses, req, out2, space,
                   discovered_agents, selected_agents>>

\* direct_synthesis_analysis, called at line 812 or 818.
DirectSynthesis ==
    /\ pc = "direct"
    /\ \E o \in ModelOutcomes :
        /\ response' = o
        /\ result' = direct_synthesis_analysis(req.repo_url, o)
    /\ calls' = calls + 1
    /\ session_map' = after_model_calls(session_map, uuid_next, 1).map
    /\ uuid_next' = after_model_calls(session_map, uuid_next, 1).next
    /\ events' = Append(events, Event("direct", 1))
    /\ outcome' = "direct"
    /\ pc' = "done"
    /\ UNCHANGED <<attempt, synthesis_prompt, agent_responses, req, out2, space,
                   discovered_agents, selected_agents>>

NextPipeline ==
    AnalyzeStart \/ Discover \/ Select \/ QueryAgent \/ Collect \/ Synthesize
    \/ DirectSynthesis

SpecPipeline == InitPipeline /\ [][NextPipeline]_vars

(***************************************************************************)
(* create_github_payload on the records the defaulting pass returns        *)
(***************************************************************************)
\* repr() of a JSON value, as Python writes it.
RECURSIVE PyRepr(_)
RECURSIVE PyReprItems(_)
PyReprItems(items) ==
    IF items = <<>> THEN ""
    ELSE PyRepr(Head(items)) \o (IF Len(items) > 1 THEN ", " ELSE "")
         \o PyReprItems(Tail(items))

PyRepr(v) ==
    CASE v.t = "null" -> "None"
      [] v.t = "bool" -> IF v.n = 1 THEN "True" ELSE "False"
      [] v.t = "num"  -> NatToStr(v.n)
      [] v.t = "str"  -> "'" \o v.s \o "'"
      [] v.t = "list" -> "[" \o PyReprItems(v.l) \o "]"
      [] v.t = "dict" -> IF v.n = 0 THEN "{}" ELSE "{'k': 1}"

\* A value inside an f-string: a str as it is, anything else as its repr.
PyFormat(v) == IF v.t = "str" THEN v.s ELSE PyRepr(v)

\* chr(10).join([prefix + x for x in items]), for items that are all str.
RECURSIVE bullet_lines(_, _)
bullet_lines(prefix, items) ==
    IF items = <<>> THEN ""
    ELSE prefix \o Head(items).s \o (IF Len(items) > 1 THEN "\n" ELSE "")
         \o bullet_lines(prefix, Tail(items))

\* Lines 997-1020, with the prefix of the acceptance criteria as a parameter.
github_payload(issue_data, criteria_prefix) ==
    LET get(key, default) == IF key \in DOMAIN issue_data THEN issue_data[key] ELSE default
    IN  [title |-> get("title", JStr("AI-Generated Enhancement")),
         body |->
            "## Feature Description\n"
            \o PyFormat(get("body", JStr("AI-generated feature suggestion")))
            \o "\n\n## Implementation Details\n**Difficulty Level**: "
            \o PyFormat(get("difficulty", JStr("Medium")))
            \o "\n**Priority**: " \o PyFormat(get("priority", JStr("Medium")))
            \o "\n**Estimated Time**: "
            \o PyFormat(get("implementation_estimate", JStr("TBD")))
            \o "\n\n## Technical Requirements\n"
            \o bullet_lines("- ", get("technical_requirements", JList(<<>>)).l)
            \o "\n\n## Acceptance Criteria\n"
            \o bullet_lines(criteria_prefix, get("acceptance_criteria", JList(<<>>)).l)
            \o "\n\n---\n*This issue was created by AI agents analyzing the repository structure and suggesting enhancements.*\n",
         assignees |-> <<>>,
         labels |-> get("labels", StrList(<<"enhancement">>))]

\* A variant that writes the acceptance criteria as plain bullets.
create_github_payload_plain(issue_data) == github_payload(issue_data, "- ")

\* create_github_payload, lines 995-1020, when it does not raise.
create_github_payload(issue_data) == github_payload(issue_data, "- [ ] ")

\* The call on the record the defaulting pass returned; the record itself
\* is only read.
CreateGithubPayload ==
    /\ pc = "pass1"
    /\ pc' = "payload"
    /\ outcome' = IF payload_raises(result) THEN "raised" ELSE "returned"
    /\ out2' = IF payload_raises(result) THEN Exception ELSE create_github_payload(result)
    /\ UNCHANGED <<attempt, calls, response, synthesis_prompt, result, agent_responses,
                   events, session_map, uuid_next, req, space, discovered_agents,
                   selected_agents>>

NextPayload == FirstPass \/ CreateGithubPayload

SpecPayload == InitDefaulting /\ [][NextPayload]_vars

\* The first position at or after from where piece occurs in text, 0 when
\* there is none.
FindStr(text, piece, from) ==
    LET at == {i \in from..(Len(text) - Len(piece) + 1) :
                    SubSeq(text, i, i + Len(piece) - 1) = piece}
    IN  IF at = {} THEN 0 ELSE MinOf(at)

\* The position after the pieces found one after the other in text from
\* position from on, 0 when they are not all there in this order.
RECURSIVE AfterInOrder(_, _, _)
AfterInOrder(text, pieces, from) ==
    IF pieces = <<>> THEN from
    ELSE LET at == FindStr(text, Head(pieces), from)
         IN  IF at = 0 THEN 0
             ELSE AfterInOrder(text, Tail(pieces), at + Len(Head(pieces)))

\* C26: the payload carries the title and the labels of the record as they
\* are and an empty assignee list, and its body holds, in this order, every
\* element of technical_requirements after "- " and then every element of
\* acceptance_criteria after "- [ ] ".
C26_PayloadPassesThrough ==
    (pc = "payload" /\ outcome = "returned") =>
        /\ out2.title = result.title
        /\ out2.labels = result.labels
        /\ out2.assignees = <<>>
        /\ DOMAIN out2 = {"title", "body", "assignees", "labels"}
        /\ \E requirements \in {[i \in 1..Len(result.technical_requirements.l) |->
                                    "- " \o result.technical_requirements.l[i].s]},
              criteria \in {[i \in 1..Len(result.acceptance_criteria.l) |->
                                "- [ ] " \o result.acceptance_criteria.l[i].s]} :
            AfterInOrder(out2.body, requirements \o criteria, 1) > 0

\* A record with a number as title and a defaulted requirement list.
C26_Witness ==
    /\ pc = "payload"
    /\ outcome = "returned"
    /\ result.title = JNum(5)
    /\ out2.title = JNum(5)
    /\ out2.labels = StrList(<<"frontend">>)
    /\ Len(result.technical_requirements.l) = 2
    /\ FindStr(out2.body, "## Technical Requirements\n- Implementation planning\n- Code development\n\n## Acceptance Criteria\n- [ ] Theme persists\n\n---", 1) > 0

\* C27: create_github_payload returns a payload for every record the
\* defaulting pass can return, whatever the JSON type of the elements of
\* its lists, and changes nothing.
C27_PayloadNeverRaises ==
    pc = "payload" =>
        /\ outcome = "returned"
        /\ out2 # Exception
        /\ result = validate_and_fix_issue_data(req.rec)

(***************************************************************************)
(* ask_asi_one with stream=True: the loop over the lines of the answer     *)
(***************************************************************************)
\* A line of the answer.  text is the line itself when no JSON follows
\* (top = "none"), and otherwise what precedes the JSON value.  The JSON
\* value is described along the path the code reads: its own type, the
\* value under "choices", the first item of that, the value under "delta"
\* of that, and the value under "content" of that.
Line(text) ==
    [text |-> text, top |-> "none", choices |-> "absent", first |-> "absent",
     delta |-> "absent", content |-> "absent", token |-> ""]

Chunk(text, top, choices, first, delta, content, token) ==
    [text |-> text, top |-> top, choices |-> choices, first |-> first,
     delta |-> delta, content |-> content, token |-> token]

Delta(text, token) == Chunk(text, "object", "list", "object", "object", "str", token)

StartsWith(str, prefix) ==
    Len(str) >= Len(prefix) /\ SubSeq(str, 1, Len(prefix)) = prefix

\* Lines 199-209 on a JSON value: "skip" when the condition of line 202 is
\* false, "token" when full_text grows, "raise" for an exception that is
\* no JSONDecodeError (chunk.get on a value that is no dict, choices[0] on
\* a dict or a number, .get on an item that is no dict, "content" in None,
\* full_text += a value that is no str).
chunk_effect(frame) ==
    IF frame.top # "object" THEN "raise"
    ELSE IF frame.choices \in {"absent", "null", "empty_list"} THEN "skip"
    ELSE IF frame.choices # "list" THEN "raise"
    ELSE IF frame.first # "object" THEN "raise"
    ELSE IF frame.delta = "absent" THEN "skip"
    ELSE IF frame.delta # "object" THEN "raise"
    ELSE IF frame.content = "absent" THEN "skip"
    ELSE IF frame.content # "str" THEN "raise"
    ELSE "token"

\* A variant that takes every frame with a JSON object for a token.
stream_line_eager(frame, full_text) ==
    IF ~StartsWith(frame.text, "data: ") THEN [next |-> "continue", text |-> full_text]
    ELSE IF frame.top = "none" /\ frame.text = "data: [DONE]"
    THEN [next |-> "break", text |-> full_text]
    ELSE [next |-> "continue", text |-> full_text \o frame.token]

\* One iteration of the loop of lines 193-209.
stream_line(frame, full_text) ==
    IF (frame.text = "" /\ frame.top = "none") \/ ~StartsWith(frame.text, "data: ")
    THEN [next |-> "continue", text |-> full_text]
    ELSE IF frame.top = "none"
    THEN [next |-> IF frame.text = "data: [DONE]" THEN "break" ELSE "continue",
          text |-> full_text]
    ELSE CASE chunk_effect(frame) = "skip" -> [next |-> "continue", text |-> full_text]
           [] chunk_effect(frame) = "token" ->
                [next |-> "continue", text |-> full_text \o frame.token]
           [] chunk_effect(frame) = "raise" -> [next |-> "raise", text |-> full_text]

\* Lines the server may send.
Frames ==
    {Line(""), Line(": ping"), Line("data:[DONE]"), Line("data: [DONE]"),
     Line("data: {oops"),
     Delta("data: ", "Hel"), Delta("data: ", "lo"), Delta("", "stray"),
     Chunk("data: ", "object", "absent", "absent", "absent", "absent", ""),
     Chunk("data: ", "object", "empty_list", "absent", "absent", "absent", ""),
     Chunk("data: ", "object", "list", "object", "object", "absent", ""),
     Chunk("data: ", "object", "list", "object", "null", "absent", ""),
     Chunk("data: ", "object", "list", "object", "object", "null", ""),
     Chunk("data: ", "list", "absent", "absent", "absent", "absent", "")}

MaxFrames == 3

Streams == UNION {[1..n -> Frames] : n \in 0..MaxFrames}

InitStream ==
    /\ Idle
    /\ pc = "stream"
    /\ req \in {[kind |-> "stream", lines |-> lines] : lines \in Streams}
    /\ result = ""
    /\ out2 = None

\* One line of resp.iter_lines; attempt counts the lines read, result is
\* full_text.
IterLine ==
    /\ pc = "stream"
    /\ attempt < Len(req.lines)
    /\ \E step \in {stream_line(req.lines[attempt + 1], result)} :
        /\ result' = step.text
        /\ pc' = CASE step.next = "continue" -> "stream"
                   [] step.next = "break" -> "returned"
                   [] step.next = "raise" -> "raised"
    /\ attempt' = attempt + 1
    /\ UNCHANGED <<calls, response, synthesis_prompt, outcome, agent_responses, events,
                   session_map, uuid_next, req, out2, space, discovered_agents,
                   selected_agents>>

\* Lines 211-213: the lines are used up, full_text is returned.
StreamEnd ==
    /\ pc = "stream"
    /\ attempt = Len(req.lines)
    /\ pc' = "returned"
    /\ UNCHANGED <<attempt, calls, response, synthesis_prompt, result, outcome,
                   agent_responses, events, session_map, uuid_next, req, out2, space,
                   discovered_agents, selected_agents>>

NextStream == IterLine \/ StreamEnd

SpecStream == InitStream /\ [][NextStream]_vars

\* The lines before the first "data: [DONE]".
BeforeDone(lines) ==
    LET done == {i \in 1..Len(lines) : lines[i] = Line("data: [DONE]")}
    IN  IF done = {} THEN lines ELSE SubSeq(lines, 1, MinOf(done) - 1)

\* A frame with the data prefix whose JSON has a text under
\* choices[0].delta.content.
IsContentFrame(frame) ==
    /\ StartsWith(frame.text, "data: ")
    /\ frame.top = "object" /\ frame.choices = "list" /\ frame.first = "object"
    /\ frame.delta = "object" /\ frame.content = "str"

RECURSIVE TokensOf(_)
TokensOf(lines) ==
    IF lines = <<>> THEN ""
    ELSE (IF IsContentFrame(Head(lines)) THEN Head(lines).token ELSE "")
         \o TokensOf(Tail(lines))

\* C28: the streaming call returns the tokens of the content frames before
\* the first [DONE], joined in order; the frames after it add nothing, and
\* every other frame is skipped and does not make the call fail.
C28_StreamedTextIsTokensBeforeDone ==
    /\ pc # "raised"
    /\ pc = "returned" => result = TokensOf(BeforeDone(req.lines))

(***************************************************************************)
(* The URL checks: extract_repo_info in the analysis run, and              *)
(* validate_github_pr_url in analyze_pr  (uagent2/backend.py)              *)
(***************************************************************************)
\* validate_github_pr_url, lines 37-47: url.strip() has to match
\*   ^https://github\.com/[^/\s]+/[^/\s]+/pull/\d+$
\* or the same with www.github.com.
validate_github_pr_url(url) ==
    LET u == StripStr(url)
        matches(prefix) ==
            /\ StartsWith(u, prefix)
            /\ LET rest == SubSeq(u, Len(prefix) + 1, Len(u))
                   s1 == FindChar(rest, {"/"}, 1)
                   s2 == FindChar(rest, {"/"}, s1 + 1)
                   s3 == FindChar(rest, {"/"}, s2 + 1)
                   owner == SubSeq(rest, 1, s1 - 1)
                   repo == SubSeq(rest, s1 + 1, s2 - 1)
                   number == SubSeq(rest, s3 + 1, Len(rest))
               IN  /\ s1 > 1 /\ s2 > s1 + 1 /\ s3 > s2
                   /\ CharsOf(owner) \cap SpaceChars = {}
                   /\ CharsOf(repo) \cap SpaceChars = {}
                   /\ SubSeq(rest, s2 + 1, s3 - 1) = "pull"
                   /\ number # "" /\ CharsOf(number) \subseteq CharsOf(Digits)
    IN  matches("https://github.com/") \/ matches("https://www.github.com/")

Answer(code, error, called) == [code |-> code, error |-> error, called |-> called]

\* A variant that starts the analysis before it looks at the URL.
analyze_pr_eager(data, analysis_raises) ==
    IF data = None \/ DOMAIN data = {} \/ ~Truthy(data.pr_url)
    THEN Answer(400, "pr_url is required", <<>>)
    ELSE IF analysis_raises THEN Answer(500, "Analysis failed", <<"analyze">>)
    ELSE IF data.pr_url.t # "str" \/ ~validate_github_pr_url(data.pr_url.s)
    THEN Answer(400, "Invalid GitHub PR URL format", <<"analyze">>)
    ELSE Answer(200, "", <<"analyze", "fetch">>)

\* analyze_pr, lines 59-135, for the JSON body data (None for null): the
\* status code, the error text and the calls made on pr_analyzer.  A pr_url
\* that is truthy and no str makes url.strip() raise, which line 130
\* catches.
analyze_pr(data, analysis_raises) ==
    IF data = None \/ DOMAIN data = {} THEN Answer(400, "No JSON data provided", <<>>)
    ELSE IF "pr_url" \notin DOMAIN data \/ ~Truthy(data.pr_url)
    THEN Answer(400, "pr_url is required", <<>>)
    ELSE IF data.pr_url.t # "str" THEN Answer(500, "Analysis failed", <<>>)
    ELSE IF ~validate_github_pr_url(data.pr_url.s)
    THEN Answer(400, "Invalid GitHub PR URL format", <<>>)
    ELSE IF analysis_raises THEN Answer(500, "Analysis failed", <<"analyze">>)
    ELSE Answer(200, "", <<"analyze", "fetch">>)

PrUrl == "https://github.com/acme/scraper-bot/pull/12"

\* JSON bodies of POST /analyze-pr.
PrRequests ==
    {None, EmptyDict}
    \cup {[pr_url |-> v] :
            v \in {JNull, JNum(5), JStr("")}
                  \cup {JStr(u) : u \in {PrUrl, " " \o PrUrl \o "\n",
                                         "https://www.github.com/acme/scraper-bot/pull/7",
                                         "http://github.com/acme/scraper-bot/pull/12",
                                         "https://github.com/acme/scraper-bot",
                                         "https://github.com/acme/scraper-bot/pull/",
                                         "https://github.com/acme/scraper-bot/pull/12/files",
                                         "https://github.com/acme/scraper-bot/pull/1a",
                                         "https://github.com/acme/scraper bot/pull/12",
                                         "https://github.com//scraper-bot/pull/12",
                                         "see https://github.com/acme/scraper-bot/pull/12",
                                         "https://gitlab.com/acme/scraper-bot/pull/12",
                                         "not a url"}}}

\* Repository URLs given to analyze_repository_and_create_issue.
AnyRepoUrls ==
    RepoUrls \cup {"not a url", "https://gitlab.com/acme/tool", "github.com/acme",
                   "https://github.com/acme/tool/issues"}

InitUrl ==
    /\ Idle
    /\ result = None
    /\ out2 = None
    /\ \/ pc = "analyze" /\ req \in {[kind |-> "analyze", repo_url |-> u] : u \in AnyRepoUrls}
       \/ pc = "request" /\ req \in {[kind |-> "pr", data |-> d] : d \in PrRequests}

\* POST /analyze-pr: the handler as a whole, with the calls it made on
\* pr_analyzer appended to events.
AnalyzePr ==
    /\ pc = "request"
    /\ \E analysis_raises \in BOOLEAN :
        \E answer \in {analyze_pr(req.data, analysis_raises)} :
            /\ result' = [code |-> answer.code, error |-> answer.error]
            /\ events' = events \o [i \in 1..Len(answer.called) |-> Event(answer.called[i], i)]
    /\ pc' = "responded"
    /\ UNCHANGED <<attempt, calls, response, synthesis_prompt, outcome, agent_responses,
                   session_map, uuid_next, req, out2, space, discovered_agents,
                   selected_agents>>

NextUrl == NextPipeline \/ AnalyzePr

SpecUrl == InitUrl /\ [][NextUrl]_vars

\* C29: an invalid URL is rejected before any external call and without a
\* retry.  The analysis run on a URL extract_repo_info rejects ends with
\* success false and an error text, with no search, no model call and no
\* dispatch made; the backend answers 400 to a URL that fails
\* validate_github_pr_url, with neither the analyzer nor the fetch called.
C29_InvalidUrlRejectedFirst ==
    /\ (req.kind = "analyze" /\ extract_repo_info(req.repo_url) = Exception) =>
        /\ pc \in {"analyze", "done"}
        /\ events = <<>> /\ calls = 0 /\ attempt = 0
        /\ session_map = EmptyMap
        /\ pc = "done" =>
            /\ result.success = FALSE
            /\ result.error = "Invalid GitHub repository URL"
    /\ (req.kind = "analyze" /\ pc = "done" /\ events = <<>>) =>
        extract_repo_info(req.repo_url) = Exception
    /\ (/\ req.kind = "pr" /\ pc = "responded"
        /\ req.data # None /\ "pr_url" \in DOMAIN req.data
        /\ req.data.pr_url.t = "str" /\ req.data.pr_url.s # ""
        /\ ~validate_github_pr_url(req.data.pr_url.s))
        => result.code = 400 /\ result.error # "" /\ events = <<>>
    /\ (req.kind = "pr" /\ pc = "responded" /\ events # <<>>) =>
        /\ validate_github_pr_url(req.data.pr_url.s)
        /\ req.data.pr_url.s \in {PrUrl, " " \o PrUrl \o "\n",
                                  "https://www.github.com/acme/scraper-bot/pull/7"}

\* The backend has answered a repository URL, which is no pull request URL.
C29_Witness ==
    /\ req.kind = "pr"
    /\ pc = "responded"
    /\ req.data # None /\ DOMAIN req.data = {"pr_url"}
    /\ req.data.pr_url = JStr("https://github.com/acme/scraper-bot")
    /\ result = [code |-> 400, error |-> "Invalid GitHub PR URL format"]
    /\ events = <<>>

(***************************************************************************)
(* discover_analysis_agents alone, with what each query returned kept      *)
(***************************************************************************)
\* Results of fetch.ai: the same address under two names, one agent twice
\* in a result, agents found again by a later query.
DiscoveryResults ==
    {[kind |-> "raise", ais |-> <<>>], [kind |-> "none", ais |-> <<>>],
     [kind |-> "ais", ais |-> <<MarketAgent(0), MarketAgent(1), MarketAgent(2)>>],
     [kind |-> "ais", ais |-> <<[MarketAgent(1) EXCEPT !.name = "Clone"], MarketAgent(3),
                                [MarketAgent(3) EXCEPT !.name = "Twin"]>>],
     [kind |-> "ais", ais |-> <<MarketAgent(2), MarketAgent(1)>>]}

InitDiscovery ==
    /\ Idle
    /\ pc = "discover"
    /\ req = [kind |-> "analyze", repo_url |-> RepoUrl]
    /\ result = None
    /\ out2 = <<>>

\* out2 keeps what each query returned.
DiscoverLogged == \E f \in DiscoveryResults : discover_query(f) /\ out2' = Append(out2, f)

SpecDiscovery == InitDiscovery /\ [][DiscoverLogged]_vars

\* The agents with an address that the queries so far returned, as
\* <<query number, position in the result>>.
Found ==
    {jk \in (1..Len(out2)) \X (1..3) :
        /\ out2[jk[1]].kind = "ais"
        /\ jk[2] <= Len(out2[jk[1]].ais)
        /\ out2[jk[1]].ais[jk[2]].address # ""}

Earlier(a, b) == a[1] < b[1] \/ (a[1] = b[1] /\ a[2] < b[2])

FirstFound == {a \in Found : \A b \in Found :
                    out2[b[1]].ais[b[2]].address = out2[a[1]].ais[a[2]].address
                        => ~Earlier(b, a)}

\* C23: the five queries are issued in their fixed order whatever the
\* earlier ones returned or raised; the list holds no address twice, holds
\* every non-empty address a query returned, and holds for each address the
\* agent of its first occurrence, marked with the query that found it, in
\* the order found.
C23_FiveQueriesFirstOccurrenceKept ==
    /\ Len(search_queries(req.repo_url)) = 5
    /\ Len(events) = Len(out2) /\ Len(events) <= 5
    /\ \A i \in 1..Len(events) : events[i] = Event("search", i)
    /\ pc = "discover" <=> Len(events) < 5
    /\ \A m, n \in 1..Len(discovered_agents) :
        m # n => discovered_agents[m].address # discovered_agents[n].address
    /\ \A a \in Found :
        \E m \in 1..Len(discovered_agents) :
            discovered_agents[m].address = out2[a[1]].ais[a[2]].address
    /\ Len(discovered_agents) = Cardinality(FirstFound)
    /\ \A m \in 1..Len(discovered_agents) :
        \E a \in FirstFound :
            /\ discovered_agents[m] =
                    [out2[a[1]].ais[a[2]] EXCEPT
                        !.search_query = search_queries(req.repo_url)[a[1]]]
            /\ Cardinality({b \in FirstFound : Earlier(b, a)}) = m - 1

\* The first query raises, the second finds three agents, one of them
\* without address, a later one returns an address again under another
\* name and a new agent twice.
C23_Witness ==
    /\ Len(out2) = 5
    /\ out2[1].kind = "raise"
    /\ out2[2].kind = "ais" /\ Len(out2[2].ais) = 3 /\ out2[2].ais[1].address = ""
    /\ out2[4].kind = "ais" /\ out2[4].ais[1].name = "Clone"
    /\ Len(discovered_agents) = 3
    /\ discovered_agents[1].name = "Analyzer1"
    /\ discovered_agents[3].name = "Analyzer3"
    /\ pc = "select"

\* A text holds a bracketed list of integer indices: between a "[" and a
\* "]" there are only digits, commas and blanks, and at least one digit.
HoldsIndexList(text) ==
    \E i, j \in 1..Len(text) :
        /\ i < j
        /\ CharAt(text, i) = "[" /\ CharAt(text, j) = "]"
        /\ \A k \in (i + 1)..(j - 1) :
            CharAt(text, k) \in CharsOf(Digits) \cup {","} \cup SpaceChars
        /\ \E k \in (i + 1)..(j - 1) : CharAt(text, k) \in CharsOf(Digits)

\* C24: when the selection call raised, or its response holds no bracketed
\* list of integer indices, the agents selected are the first three
\* discovered (all of them when fewer than three were discovered), and not
\* the empty list.
C24_FirstThreeWhenUnparsed ==
    (/\ CountEvents("select") = 1
     /\ pc \in {"dispatch", "collect", "synthesize", "direct"}
     /\ discovered_agents # <<>>
     /\ response.kind = "text" => ~HoldsIndexList(RenderToks(response.toks)))
    => /\ selected_agents # <<>>
       /\ selected_agents =
            SubSeq(discovered_agents, 1,
                   IF Len(discovered_agents) < 3 THEN Len(discovered_agents) ELSE 3)

\* The dispatch events so far, of either kind.
Dispatches == SelectSeq(events, LAMBDA ev : ev.e \in {"dispatch", "dispatch_failed"})

\* C25: a failed dispatch is reported for its agent only.  The dispatches
\* are attempted for the selected agents one after the other, whether or
\* not an earlier one failed; once the dispatch stage is left every
\* selected agent has exactly one dispatch event, and the run goes on to
\* collection, with one opinion per selected agent, and to synthesis.
C25_DispatchFailureIsolated ==
    /\ \A i \in 1..Len(Dispatches) : Dispatches[i].n = i
    /\ Len(Dispatches) <= Len(selected_agents)
    /\ (pc = "dispatch") => Len(Dispatches) < Len(selected_agents)
    /\ (Len(Dispatches) > 0 /\ pc # "dispatch") =>
        /\ Len(Dispatches) = Len(selected_agents)
        /\ pc \in {"collect", "synthesize", "done"}
        /\ pc \in {"synthesize", "done"} =>
            /\ CountEvents("collect") = 1
            /\ Len(agent_responses) = Len(selected_agents)
        /\ pc = "done" =>
            /\ outcome = "multi_agent"
            /\ CountEvents("synthesize") = 1
            /\ calls >= 2

\* The first of two dispatches failed, the second was sent, and the run
\* ended with the multi-agent result.
C25_Witness ==
    /\ pc = "done"
    /\ outcome = "multi_agent"
    /\ Len(selected_agents) = 2
    /\ Len(Dispatches) = 2
    /\ Dispatches[1].e = "dispatch_failed"
    /\ Dispatches[2].e = "dispatch"
    /\ result.success = TRUE

\* C11: the run takes the direct strategy, with its single model call,
\* exactly when discovery or selection returned no agent; then no agent is
\* dispatched to and the synthesis loop is not entered; and a direct run
\* whose model call returns a text that parses into a record with string
\* list items ends with success true.
C11_DirectStrategyWhenNoAgents ==
    /\ CountEvents("direct") > 0 =>
        /\ discovered_agents = <<>> \/ selected_agents = <<>>
        /\ CountEvents("dispatch") + CountEvents("dispatch_failed") = 0
        /\ CountEvents("collect") + CountEvents("synthesize") = 0
        /\ calls = CountEvents("select") + 1
        /\ pc = "done" /\ outcome = "direct"
        /\ response.kind = "text" =>
            LET issue_data == parse_direct_response(response, req.repo_url)
            IN  IF payload_raises(issue_data)
                THEN result.success = FALSE
                ELSE /\ result.success = TRUE
                     /\ result.analysis_method = "Direct ASI:One Analysis"
                     /\ result.synthesized_analysis = issue_data
    /\ (CountEvents("search") = Len(search_queries(req.repo_url)) /\ discovered_agents = <<>>)
        => pc \in {"direct", "done"} /\ CountEvents("select") = 0
    /\ (CountEvents("select") > 0 /\ selected_agents = <<>>) => pc \in {"direct", "done"}
    /\ (pc = "done" /\ outcome = "multi_agent") =>
        /\ CountEvents("direct") = 0
        /\ discovered_agents # <<>> /\ selected_agents # <<>>
    /\ (pc = "done" /\ outcome # "error" /\ (discovered_agents = <<>> \/ selected_agents = <<>>))
        => outcome = "direct"

C11_Witness ==
    /\ pc = "done"
    /\ outcome = "direct"
    /\ discovered_agents # <<>>
    /\ selected_agents = <<>>
    /\ result.success = TRUE

(***************************************************************************)
(* Specification of the fallback's keyword scoring                         *)
(***************************************************************************)
\* Opinion texts: one per category, texts that tie two categories, a text
\* without any keyword and the empty text.
ScoredOpinions ==
    {"", "Looks fine",
     "Authentication, login, OAuth and again OAuth",
     "Search with a filter", "Websocket push", "Endpoint caching",
     "Frontend UX", "DB storage", "Unit test", "Encryption and validation",
     "login then filter", "UX or DB"}

ScoredOpinionLists == UNION {[1..n -> ScoredOpinions] : n \in 0..MaxOpinions}

InitFallback ==
    /\ Idle
    /\ pc = "input"
    /\ req \in {[resp |-> NoContent, ops |-> ops] : ops \in ScoredOpinionLists}
    /\ result = None
    /\ out2 = None

SpecFallback == InitFallback /\ [][SmartFallback]_vars

\* The category the fallback record names (the last of its labels).
ChosenCategory == result.labels.l[3].s

\* The keyword hits of every category of the table in the joined opinions.
Hits ==
    [i \in 1..Len(feature_patterns) |->
        Cardinality({k \in 1..Len(feature_patterns[i].keywords) :
            Contains(Lower(JoinBlank(req.ops)), feature_patterns[i].keywords[k])})]

\* C12: the fallback selects the category with the most keyword hits in the
\* joined opinion texts, the earliest in table order among equals, and
\* search when nothing hits; authentication, login and oauth twice select
\* authentication, and the empty and the keyword-free text select search.
C12_HighestScoreEarliestOnTie ==
    pc = "fallback" =>
        \A hits \in {Hits} :
            /\ (\A i \in DOMAIN hits : hits[i] = 0) => ChosenCategory = "search"
            /\ (\E i \in DOMAIN hits : hits[i] > 0) =>
                \E c \in DOMAIN hits :
                    /\ feature_patterns[c].feature = ChosenCategory
                    /\ \A j \in DOMAIN hits : hits[j] <= hits[c]
                    /\ \A j \in 1..(c - 1) : hits[j] < hits[c]
            /\ req.ops = <<"Authentication, login, OAuth and again OAuth">>
                    => hits[1] = 3 /\ ChosenCategory = "authentication"
            /\ req.ops \in {<<>>, <<"">>, <<"Looks fine">>} => ChosenCategory = "search"

C12_Witness ==
    /\ pc = "fallback"
    /\ req.ops = <<"UX or DB", "login then filter">>
    /\ ChosenCategory = "authentication"

\* C13: whichever of the eight categories scores highest, the table of
\* templates holds a template of that category, and the title, body,
\* difficulty and priority of the fallback record are those of that
\* template, the category being the one named in the labels.
C13_OwnTemplatePerCategory ==
    pc = "fallback" =>
        /\ ChosenCategory \in {feature_patterns[i].feature : i \in 1..Len(feature_patterns)}
        /\ ChosenCategory \in DOMAIN feature_templates
        /\ \E own \in {feature_templates[ChosenCategory]} :
            /\ result.title = JStr(own.title)
            /\ result.difficulty = JStr(own.difficulty)
            /\ result.priority = JStr(own.priority)
            /\ Contains(result.body.s, own.body)

(***************************************************************************)
(* classify_project_type  (uagent/metta/utils.py)                          *)
(***************************************************************************)
\* any(keyword in text for keyword in keywords)
AnyIn(keywords, text) == \E k \in 1..Len(keywords) : Contains(text, keywords[k])

\* Lines 63, 69, 75: the keyword groups tested on the description, in order.
description_groups ==
    <<[tag |-> "ai_ml",
       keywords |-> <<"ai/ml", "machine learning", "ml", "ai", "artificial intelligence",
                      "neural", "model", "tensorflow", "pytorch">>],
      [tag |-> "scraping",
       keywords |-> <<"scrap", "scraping", "crawler", "spider", "harvest",
                      "data collection", "web scraping">>],
      [tag |-> "documentation",
       keywords |-> <<"documentation", "docs", "guide", "tutorial", "reference",
                      "manual", "learning resource">>]>>

\* Lines 82, 88, 94: the keyword groups tested on the name, in order.
name_groups ==
    <<[tag |-> "scraping",
       keywords |-> <<"scrap", "crawler", "spider", "harvest", "trends", "twitter",
                      "instagram", "facebook">>],
      [tag |-> "competitive_programming",
       keywords |-> <<"leet", "leetcode", "algorithm", "competitive", "contest", "cph",
                      "coding">>],
      [tag |-> "documentation",
       keywords |-> <<"docs", "documentation", "guide", "tutorial", "reference", "manual">>]>>

\* Lines 101, 106: the topic tags, in order.
topic_groups ==
    <<[tag |-> "ai_ml",
       keywords |-> <<"machine-learning", "ai", "ml", "tensorflow", "pytorch",
                      "scikit-learn", "data-science">>],
      [tag |-> "mobile_app",
       keywords |-> <<"android", "ios", "mobile", "flutter", "react-native">>]>>

\* Lines 112, 116: the languages, in order.
language_groups ==
    <<[tag |-> "mobile_app", keywords |-> <<"swift", "kotlin", "dart">>],
      [tag |-> "blockchain", keywords |-> <<"solidity">>]>>

\* The tag of the group picked out of the groups that matched ("" when
\* none did).
TagOf(groups, matched, pick) ==
    IF matched = {} THEN "" ELSE groups[IF pick = "first" THEN MinOf(matched)
                                        ELSE MaxOf(matched)].tag

DescriptionMatches(description) ==
    {i \in 1..Len(description_groups) :
        description # "" /\ AnyIn(description_groups[i].keywords, description)}

classify_by_description_last(description) ==
    TagOf(description_groups, DescriptionMatches(description), "last")

\* Lines 60-78: the tag the description fixes, "" when it fixes none.
classify_by_description(description) ==
    TagOf(description_groups, DescriptionMatches(description), "first")

NameMatches(name) ==
    {i \in 1..Len(name_groups) : AnyIn(name_groups[i].keywords, name)}

\* keyword in topics is list membership: a whole topic equals the keyword.
TopicMatches(topics) ==
    {i \in 1..Len(topic_groups) :
        \E k \in 1..Len(topic_groups[i].keywords), t \in 1..Len(topics) :
            topics[t] = topic_groups[i].keywords[k]}

LanguageMatches(language) ==
    {i \in 1..Len(language_groups) :
        \E k \in 1..Len(language_groups[i].keywords) :
            language = language_groups[i].keywords[k]}

classify_after_description_language_first(name, topics, language) ==
    IF LanguageMatches(language) # {}
    THEN TagOf(language_groups, LanguageMatches(language), "first")
    ELSE IF NameMatches(name) # {} THEN TagOf(name_groups, NameMatches(name), "first")
    ELSE IF TopicMatches(topics) # {} THEN TagOf(topic_groups, TopicMatches(topics), "first")
    ELSE "web_app"

\* Lines 80-123: the rules after the description.
classify_after_description(name, topics, language) ==
    IF NameMatches(name) # {} THEN TagOf(name_groups, NameMatches(name), "first")
    ELSE IF TopicMatches(topics) # {} THEN TagOf(topic_groups, TopicMatches(topics), "first")
    ELSE IF LanguageMatches(language) # {}
    THEN TagOf(language_groups, LanguageMatches(language), "first")
    ELSE "web_app"

\* Lines 48-58: a field of repo_data, lower-cased, "" when absent, None or
\* empty; the topics that are not empty, lower-cased.
LowerField(repo_data, key) ==
    IF key \in DOMAIN repo_data /\ Truthy(repo_data[key]) THEN Lower(repo_data[key].s) ELSE ""

LowerTopics(repo_data) ==
    IF "topics" \notin DOMAIN repo_data THEN <<>>
    ELSE LET kept == SelectSeq(repo_data.topics.l, Truthy)
         IN  [i \in 1..Len(kept) |-> Lower(kept[i].s)]

classify_project_type_name_first(repo_data) ==
    IF DOMAIN repo_data = {} THEN "web_app"
    ELSE LET after == classify_after_description(LowerField(repo_data, "name"),
                                                 LowerTopics(repo_data),
                                                 LowerField(repo_data, "language"))
             by_description == classify_by_description(LowerField(repo_data, "description"))
         IN  IF after # "web_app" \/ by_description = "" THEN after ELSE by_description

\* classify_project_type, lines 40-123.
classify_project_type(repo_data) ==
    IF DOMAIN repo_data = {} THEN "web_app"
    ELSE LET by_description == classify_by_description(LowerField(repo_data, "description"))
         IN  IF by_description # "" THEN by_description
             ELSE classify_after_description(LowerField(repo_data, "name"),
                                             LowerTopics(repo_data),
                                             LowerField(repo_data, "language"))

\* Lines 48-58 raise when x.lower() is called on a name, language or
\* description that is truthy and no str, when the topics cannot be iterated
\* (None, a number, a bool) or hold a truthy item that is no str.
classify_raises(repo_data) ==
    /\ DOMAIN repo_data # {}
    /\ \/ \E key \in {"name", "language", "description"} \cap DOMAIN repo_data :
            Truthy(repo_data[key]) /\ repo_data[key].t # "str"
       \/ /\ "topics" \in DOMAIN repo_data
          /\ \/ repo_data.topics.t \in {"null", "num", "bool"}
             \/ \E i \in 1..Len(repo_data.topics.l) :
                    Truthy(repo_data.topics.l[i]) /\ repo_data.topics.l[i].t # "str"

\* Repository records: each of the four fields absent, None or a value of
\* the type the GitHub API gives it.
RepoFieldChoices ==
    [description |-> {Absent, JNull, JStr("A Machine Learning toolkit"),
                      JStr("Web crawler with neural ranking"), JStr("Scraping tutorial"),
                      JStr("Reference manual for spiders and models"),
                      JStr("Documentation site"), JStr("A todo list")},
     name |-> {Absent, JStr("Crawler-Kit"), JStr("leetcode-guide"), JStr("my-docs"),
               JStr("shop")},
     topics |-> {Absent, StrList(<<>>), StrList(<<"Machine-Learning">>),
                 StrList(<<"android", "ai">>), StrList(<<"", "ios">>), StrList(<<"mlops">>)},
     language |-> {Absent, JNull, JStr("Swift"), JStr("dart"), JStr("Solidity"),
                   JStr("Python")}]

RepoDatas ==
    {[k \in {x \in DOMAIN f : f[x] # Absent} |-> f[k]] :
        f \in [DOMAIN RepoFieldChoices -> UNION {RepoFieldChoices[k] : k \in DOMAIN RepoFieldChoices}]
              \cap [description : RepoFieldChoices.description, name : RepoFieldChoices.name,
                    topics : RepoFieldChoices.topics, language : RepoFieldChoices.language]}

InitClassify ==
    /\ Idle
    /\ pc = "input"
    /\ req \in RepoDatas
    /\ result = None
    /\ out2 = None

ClassifyProjectType ==
    /\ pc = "input"
    /\ Applied("classified", [project_type |-> classify_project_type(req)])

SpecClassify == InitClassify /\ [][ClassifyProjectType]_vars

\* The groups of a table with a keyword in (or, for topics and language,
\* equal to) the lower-cased field of the record classified.
GroupsHit(groups, field, whole) ==
    {i \in 1..Len(groups) :
        \E k \in 1..Len(groups[i].keywords) :
            IF field = "topics"
            THEN \E t \in 1..Len(LowerTopics(req)) : LowerTopics(req)[t] = groups[i].keywords[k]
            ELSE IF whole THEN LowerField(req, field) = groups[i].keywords[k]
            ELSE Contains(LowerField(req, field), groups[i].keywords[k])}

DescriptionHits == GroupsHit(description_groups, "description", FALSE)

\* C14: when the description matches a description keyword group, the tag
\* is that of a group the description matches, whatever name, topics and
\* language hold; "machine learning" in the description with "crawler" in
\* the name gives ai_ml.
C14_DescriptionBeatsName ==
    pc = "classified" =>
        /\ DescriptionHits # {} =>
            \E i \in DescriptionHits : result.project_type = description_groups[i].tag
        /\ (Contains(LowerField(req, "description"), "machine learning")
            /\ Contains(LowerField(req, "name"), "crawler"))
                => result.project_type = "ai_ml"

C14_Witness ==
    /\ pc = "classified"
    /\ Contains(LowerField(req, "description"), "machine learning")
    /\ Contains(LowerField(req, "name"), "crawler")
    /\ LowerField(req, "language") = "solidity"
    /\ result.project_type = "ai_ml"

\* C15: a description that matches several groups resolves to the first of
\* them in the order AI/ML, scraping, documentation.
C15_DescriptionGroupOrder ==
    pc = "classified" =>
        \A i \in DescriptionHits :
            (\A j \in 1..(i - 1) : j \notin DescriptionHits)
                => result.project_type = description_groups[i].tag

C15_Witness ==
    /\ pc = "classified"
    /\ DescriptionHits = {2, 3}
    /\ result.project_type = "scraping"

\* C16: when the description matches no group, the tag is that of the first
\* matching rule in the order name, topics, language (swift, kotlin, dart:
\* mobile_app; solidity: blockchain), and the tag is web_app exactly when no
\* rule of any level matches.
C16_NameTopicsLanguageThenDefault ==
    pc = "classified" =>
        \E names \in {GroupsHit(name_groups, "name", FALSE)},
           topics \in {GroupsHit(topic_groups, "topics", TRUE)},
           languages \in {GroupsHit(language_groups, "language", TRUE)} :
            /\ DescriptionHits = {} =>
                result.project_type =
                    IF names # {} THEN name_groups[MinOf(names)].tag
                    ELSE IF topics # {} THEN topic_groups[MinOf(topics)].tag
                    ELSE IF languages # {} THEN language_groups[MinOf(languages)].tag
                    ELSE "web_app"
            /\ result.project_type = "web_app"
                <=> DescriptionHits \cup names \cup topics \cup languages = {}
            /\ (DescriptionHits \cup names \cup topics = {}
                /\ LowerField(req, "language") \in {"swift", "kotlin", "dart"})
                    => result.project_type = "mobile_app"
            /\ (DescriptionHits \cup names \cup topics = {}
                /\ LowerField(req, "language") = "solidity")
                    => result.project_type = "blockchain"

C16_Witness ==
    /\ pc = "classified"
    /\ DescriptionHits = {}
    /\ GroupsHit(name_groups, "name", FALSE) = {2, 3}
    /\ GroupsHit(topic_groups, "topics", TRUE) # {}
    /\ GroupsHit(language_groups, "language", TRUE) # {}
    /\ result.project_type = "competitive_programming"

(***************************************************************************)
(* The MeTTa space and RepositoryRAG  (uagent/metta)                       *)
(*                                                                         *)
(* The space is the sequence of the atoms added, each an expression of a   *)
(* relation symbol, a subject symbol and an object that is a symbol or a   *)
(* grounded value.  match answers with the objects of the atoms that fit,  *)
(* in the order the atoms were added.                                      *)
(***************************************************************************)
Sym(v) == [grounded |-> FALSE, v |-> v]
ValueAtom(v) == [grounded |-> TRUE, v |-> v]
E(rel, subj, obj) == [rel |-> rel, subj |-> subj, obj |-> obj]

\* knowledge.py, lines 10-77: the atoms of the seed, in the order added.
initialize_knowledge_graph ==
    <<E("project_type", "web_app", Sym("authentication")),
      E("project_type", "web_app", Sym("api_documentation")),
      E("project_type", "web_app", Sym("testing_framework")),
      E("project_type", "ai_ml", Sym("model_versioning")),
      E("project_type", "ai_ml", Sym("data_pipeline")),
      E("project_type", "ai_ml", Sym("experiment_tracking")),
      E("project_type", "mobile_app", Sym("push_notifications")),
      E("project_type", "mobile_app", Sym("offline_support")),
      E("project_type", "scraping", Sym("data_storage")),
      E("project_type", "scraping", Sym("scheduled_scraping")),
      E("project_type", "scraping", Sym("proxy_rotation")),
      E("project_type", "scraping", Sym("data_visualization")),
      E("project_type", "scraping", Sym("rate_limiting")),
      E("project_type", "scraping", Sym("error_handling")),
      E("project_type", "competitive_programming", Sym("solution_organization")),
      E("project_type", "competitive_programming", Sym("automated_testing")),
      E("project_type", "competitive_programming", Sym("complexity_analysis")),
      E("project_type", "documentation", Sym("search_functionality")),
      E("project_type", "documentation", Sym("content_organization")),
      E("project_type", "documentation", Sym("interactive_examples")),
      E("feature", "authentication", ValueAtom("User authentication and authorization system with login/logout functionality")),
      E("feature", "api_documentation", ValueAtom("Interactive API documentation using Swagger/OpenAPI for better developer experience")),
      E("feature", "testing_framework", ValueAtom("Comprehensive testing suite with unit, integration, and end-to-end tests")),
      E("feature", "model_versioning", ValueAtom("ML model versioning system for tracking experiments and model rollbacks")),
      E("feature", "data_pipeline", ValueAtom("Automated data processing pipeline for ETL operations and data validation")),
      E("feature", "experiment_tracking", ValueAtom("ML experiment tracking system to monitor model performance and metrics")),
      E("feature", "push_notifications", ValueAtom("Push notification system for real-time user engagement and updates")),
      E("feature", "offline_support", ValueAtom("Offline functionality support for seamless user experience without internet")),
      E("feature", "data_storage", ValueAtom("Persistent data storage with database integration for scraped data management")),
      E("feature", "scheduled_scraping", ValueAtom("Automated scheduling system for regular data collection with cron jobs")),
      E("feature", "proxy_rotation", ValueAtom("Proxy rotation system to avoid IP blocking and ensure continuous scraping")),
      E("feature", "data_visualization", ValueAtom("Interactive dashboards and charts to visualize scraped data trends")),
      E("feature", "rate_limiting", ValueAtom("Smart rate limiting to respect website policies and avoid detection")),
      E("feature", "error_handling", ValueAtom("Robust error handling with retry mechanisms and failure notifications")),
      E("feature", "solution_organization", ValueAtom("Organize solutions by problem difficulty, topic, and platform with clear folder structure")),
      E("feature", "automated_testing", ValueAtom("Automated test cases to verify solution correctness with multiple test inputs")),
      E("feature", "complexity_analysis", ValueAtom("Time and space complexity analysis documentation for each solution")),
      E("feature", "search_functionality", ValueAtom("Advanced search with filters for programming languages, topics, and difficulty")),
      E("feature", "content_organization", ValueAtom("Hierarchical content organization with categories and tagging system")),
      E("feature", "interactive_examples", ValueAtom("Interactive code examples with live execution and editing capabilities")),
      E("feature", "ci_cd_pipeline", ValueAtom("Continuous Integration/Continuous Deployment pipeline for automated testing and deployment")),
      E("feature", "monitoring_dashboard", ValueAtom("Real-time monitoring dashboard for system health and performance metrics"))>>

\* !(match &self (rel subj $x) $x)
match(atoms, rel, subj) ==
    LET fits(a) == a.rel = rel /\ a.subj = subj
        kept == SelectSeq(atoms, fits)
    IN  [i \in 1..Len(kept) |-> kept[i].obj]

\* str(item): a symbol prints as its name, a grounded str in double quotes.
AtomStr(obj) == IF obj.grounded THEN "\"" \o obj.v \o "\"" ELSE obj.v

\* s.strip('"')
StripQuotes(s) ==
    LET a == SkipChars(s, {"\""}, 1)
        b == SkipCharsBack(s, {"\""}, Len(s))
    IN  IF a > b THEN "" ELSE SubSeq(s, a, b)

\* repositoryrag.py, lines 19-30: every item, as a stripped str, is appended
\* unless it is empty or already in the list.
RECURSIVE ExtractAll(_, _)
ExtractAll(all, items) ==
    IF items = <<>> THEN all
    ELSE ExtractAll(Append(all, StripStr(AtomStr(Head(items)))), Tail(items))

RECURSIVE ExtractNew(_, _)
ExtractNew(all, items) ==
    IF items = <<>> THEN all
    ELSE LET item_str == StripStr(AtomStr(Head(items)))
         IN  ExtractNew(IF item_str # "" /\ \A i \in 1..Len(all) : all[i] # item_str
                        THEN Append(all, item_str) ELSE all,
                        Tail(items))

query_project_features_repeating(atoms, project_type) ==
    ExtractAll(<<>>, match(atoms, "project_type", StripQuotes(project_type)))

\* query_project_features, lines 9-33.
query_project_features(atoms, project_type) ==
    ExtractNew(<<>>, match(atoms, "project_type", StripQuotes(project_type)))

\* get_feature_description, lines 35-42: results holds one list, the
\* matches, and the comprehension takes the value of its first item.
get_feature_description(atoms, feature_name) ==
    LET r == match(atoms, "feature", StripQuotes(feature_name))
    IN  IF r = <<>> THEN <<>> ELSE <<r[1].v>>

\* A Python argument that is a str, or one that is an atom already.
PyStr(v) == [str |-> TRUE, v |-> v]
PyAtom(v) == [str |-> FALSE, v |-> v]

\* add_knowledge, lines 44-49: a str object becomes a grounded value.
add_knowledge(atoms, relation_type, subject, object_value) ==
    Append(atoms, E(relation_type, subject,
                    IF object_value.str THEN ValueAtom(object_value.v)
                    ELSE Sym(object_value.v)))

(***************************************************************************)
(* process_repository_query  (uagent/metta/utils.py)                       *)
(***************************************************************************)
UpperChar(c) ==
    IF c \in CharsOf(LowerAlpha)
    THEN CharAt(UpperAlpha, CHOOSE i \in 1..26 : CharAt(LowerAlpha, i) = c)
    ELSE c

\* s.replace("_", " ")
RECURSIVE ReplaceUnderscores(_)
ReplaceUnderscores(s) ==
    IF s = "" THEN ""
    ELSE (IF CharAt(s, 1) = "_" THEN " " ELSE CharAt(s, 1))
         \o ReplaceUnderscores(SubSeq(s, 2, Len(s)))

\* str.title(): a letter is upper-cased after a character that is not a
\* letter and lower-cased after a letter.
RECURSIVE TitleFrom(_, _)
TitleFrom(s, i) ==
    IF i > Len(s) THEN ""
    ELSE LET Letters == CharsOf(UpperAlpha) \cup CharsOf(LowerAlpha)
             c == CharAt(s, i)
         IN  (IF c \notin Letters THEN c
              ELSE IF i > 1 /\ CharAt(s, i - 1) \in Letters THEN LowerChar(c)
              ELSE UpperChar(c))
             \o TitleFrom(s, i + 1)

\* analyze_repository_basic, lines 19-31, on the body of a 200 answer; a
\* language that is truthy and no str makes language.lower() raise, which
\* line 34 turns into None.
analyze_repository_basic(data) ==
    IF "language" \in DOMAIN data /\ Truthy(data.language) /\ data.language.t # "str"
    THEN None
    ELSE
    [name |-> IF "name" \in DOMAIN data THEN data.name ELSE JStr(""),
     language |-> JStr(LowerField(data, "language")),
     description |-> IF "description" \in DOMAIN data /\ Truthy(data.description)
                     THEN data.description ELSE JStr(""),
     topics |-> IF "topics" \in DOMAIN data THEN data.topics ELSE StrList(<<>>)]

\* Lines 129-135: nothing catches what classify_project_type raises.
process_repository_query_raises(repo_data) ==
    repo_data # None /\ classify_raises(repo_data)

\* A variant that answers an empty feature list with the error entry.
process_repository_query_strict(repo_data, atoms) ==
    IF repo_data = None
       \/ query_project_features(atoms, classify_project_type(repo_data)) = <<>>
    THEN <<[name |-> "Error", description |-> "Could not analyze repository"]>>
    ELSE LET features == query_project_features(atoms, classify_project_type(repo_data))
         IN  [i \in 1..Len(features) |->
                [name |-> TitleFrom(ReplaceUnderscores(features[i]), 1),
                 description |-> "Enhancement for " \o ReplaceUnderscores(features[i])]]

\* process_repository_query, lines 125-169, given what
\* analyze_repository_basic returned.
process_repository_query(repo_data, atoms) ==
    IF repo_data = None
    THEN <<[name |-> "Error", description |-> "Could not analyze repository"]>>
    ELSE LET features == query_project_features(atoms, classify_project_type(repo_data))
             described(feature) ==
                LET descriptions == get_feature_description(atoms, feature)
                IN  [name |-> TitleFrom(ReplaceUnderscores(feature), 1),
                     description |-> IF descriptions # <<>> THEN descriptions[1]
                                     ELSE "Enhancement for " \o ReplaceUnderscores(feature)]
         IN  IF features = <<>>
             THEN <<[name |-> "CI/CD Pipeline",
                     description |-> "Continuous Integration/Continuous Deployment pipeline for automated testing and deployment"],
                    [name |-> "Monitoring Dashboard",
                     description |-> "Real-time monitoring dashboard for system health and performance metrics"]>>
             ELSE [i \in 1..Len(features) |-> described(features[i])]

\* Bodies of the answer of the GitHub API.
ApiRepos ==
    {[name |-> JStr("scrapy-lite"), description |-> JStr("a web scraping tool"),
      language |-> JStr("Python"), topics |-> StrList(<<>>)],
     [name |-> JStr("vision"), description |-> JStr("Neural image models"),
      language |-> JStr("Python")],
     [name |-> JStr("wallet"), description |-> JNull, language |-> JStr("Solidity"),
      topics |-> StrList(<<"defi">>)],
     [name |-> JStr("notes"), description |-> JNull, language |-> JStr("Swift"),
      topics |-> StrList(<<>>)],
     [name |-> JStr("shop"), description |-> JStr("An online store"), language |-> JNull,
      topics |-> StrList(<<>>)],
     [name |-> JStr("leetcode-daily"), language |-> JStr("C++")],
     [name |-> JStr("handbook"), description |-> JStr("Team documentation"),
      language |-> JNull, topics |-> StrList(<<"docs">>)]}

\* What analyze_repository_basic returns: None (lines 12-13, 32-38) or the
\* record of lines 26-31.
BasicAnalyses == {None} \cup {analyze_repository_basic(data) : data \in ApiRepos}

\* Calls of add_knowledge (symbol names without blanks or parentheses).
KnowledgeAdds ==
    {[relation_type |-> "project_type", subject |-> "scraping", object_value |-> PyAtom("data_storage")],
     [relation_type |-> "project_type", subject |-> "blockchain", object_value |-> PyAtom("gas_report")],
     [relation_type |-> "feature", subject |-> "gas_report", object_value |-> PyStr("Gas usage per contract call")],
     [relation_type |-> "feature", subject |-> "data_storage", object_value |-> PyStr("Store pages on disk")],
     [relation_type |-> "project_type", subject |-> "web_app", object_value |-> PyStr("dark_mode")]}

MaxAdds == 2

InitKnowledge ==
    /\ Idle
    /\ pc = "idle"
    /\ req = None
    /\ result = None
    /\ out2 = None

StartKnowledge ==
    /\ pc = "idle"
    /\ space = <<>>
    /\ space' = initialize_knowledge_graph
    /\ UNCHANGED <<pc, attempt, calls, response, synthesis_prompt, result, outcome,
                   agent_responses, events, session_map, uuid_next, req, out2,
                   discovered_agents, selected_agents>>

AddKnowledge ==
    /\ pc = "idle"
    /\ space # <<>>
    /\ calls < MaxAdds
    /\ \E k \in KnowledgeAdds :
        space' = add_knowledge(space, k.relation_type, k.subject, k.object_value)
    /\ calls' = calls + 1
    /\ UNCHANGED <<pc, attempt, response, synthesis_prompt, result, outcome,
                   agent_responses, events, session_map, uuid_next, req, out2,
                   discovered_agents, selected_agents>>

ProcessRepositoryQuery ==
    /\ pc = "idle"
    /\ space # <<>>
    /\ \E repo_data \in BasicAnalyses :
        /\ req' = repo_data
        /\ outcome' = IF process_repository_query_raises(repo_data)
                      THEN "raised" ELSE "returned"
        /\ result' = IF process_repository_query_raises(repo_data) THEN None
                     ELSE process_repository_query(repo_data, space)
    /\ pc' = "answered"
    /\ UNCHANGED <<attempt, calls, response, synthesis_prompt, agent_responses,
                   events, session_map, uuid_next, out2, space, discovered_agents,
                   selected_agents>>

NextKnowledge == StartKnowledge \/ AddKnowledge \/ ProcessRepositoryQuery

SpecKnowledge == InitKnowledge /\ [][NextKnowledge]_vars

\* The features the space holds for the type of the repository queried, as
\* the strs the store prints them with.
HeldFeatures ==
    {AtomStr(space[i].obj) :
        i \in {j \in 1..Len(space) : /\ space[j].rel = "project_type"
                                     /\ space[j].subj = classify_project_type(req)}}

\* The first description the space holds for a feature, <<>> when none.
HeldDescription(feature) ==
    LET at == {j \in 1..Len(space) : /\ space[j].rel = "feature"
                                     /\ space[j].subj = StripQuotes(feature)}
    IN  IF at = {} THEN <<>> ELSE <<space[MinOf(at)].obj.v>>

GenericNames == {"CI/CD Pipeline", "Monitoring Dashboard"}

\* C20: the answer holds exactly one entry per feature the space holds for
\* the classified type, each with the description the space holds for that
\* feature, and no entry twice; the two generic entries are there if and
\* only if no feature was found.  "a web scraping tool" is classified as
\* scraping and answered with the seeded scraping features (data_storage
\* and rate_limiting among them) without the generic ones.
C20_OneEntryPerHeldFeature ==
    (pc = "answered" /\ req # None) =>
        \E held \in {HeldFeatures} :
            /\ held # {} =>
                /\ Len(result) = Cardinality(held)
                /\ \A f \in held :
                    \E i \in 1..Len(result) :
                        /\ result[i].name = TitleFrom(ReplaceUnderscores(f), 1)
                        /\ HeldDescription(f) # <<>>
                            => result[i].description = HeldDescription(f)[1]
                /\ \A i, j \in 1..Len(result) : i # j => result[i] # result[j]
                /\ \A i \in 1..Len(result) : result[i].name \notin GenericNames
            /\ held = {} =>
                /\ Len(result) = 2
                /\ {result[i].name : i \in 1..2} = GenericNames
            /\ req.description = JStr("a web scraping tool") =>
                /\ classify_project_type(req) = "scraping"
                /\ {"Data Storage", "Rate Limiting"}
                        \subseteq {result[i].name : i \in 1..Len(result)}
                /\ Len(result) = 6

C20_Witness ==
    /\ pc = "answered"
    /\ req # None
    /\ req.description = JStr("a web scraping tool")
    /\ Len(space) = Len(initialize_knowledge_graph) + 1
    /\ space[Len(space)] = E("project_type", "scraping", Sym("data_storage"))
    /\ Len(result) = 6

\* The entry process_repository_query answers with when it was given no
\* repository data.
ErrorEntry == [name |-> "Error", description |-> "Could not analyze repository"]

\* C21: a lookup for a subject the space holds no fact for returns the
\* empty sequence, and the query treats it as abstention: a repository whose
\* classified type has no project_type fact (blockchain on the seed) is
\* answered with the two generic entries, and a feature without a feature
\* fact with the "Enhancement for" text; the answer is never the error entry
\* and never an exception.
C21_NoFactsIsAbstention ==
    (pc = "answered" /\ req # None) =>
        \E project_type \in {classify_project_type(req)} :
            /\ outcome = "returned"
            /\ \A i \in 1..Len(result) : result[i] # ErrorEntry /\ result[i].name # "Error"
            /\ HeldFeatures = {} =>
                /\ match(space, "project_type", project_type) = <<>>
                /\ query_project_features(space, project_type) = <<>>
                /\ Len(result) = 2
                /\ {result[i].name : i \in 1..2} = GenericNames
            /\ \A f \in HeldFeatures :
                HeldDescription(f) = <<>> =>
                    /\ get_feature_description(space, f) = <<>>
                    /\ \E i \in 1..Len(result) :
                        result[i].description = "Enhancement for " \o ReplaceUnderscores(f)
            /\ (project_type = "blockchain"
                    /\ \A j \in 1..Len(space) : space[j].subj # "blockchain")
                => Len(result) = 2

\* A Solidity repository is classified as blockchain, for which the seed
\* holds nothing, and is answered with the generic entries.
C21_Witness ==
    /\ pc = "answered"
    /\ outcome = "returned"
    /\ req # None
    /\ req.language = JStr("solidity")
    /\ classify_project_type(req) = "blockchain"
    /\ space = initialize_knowledge_graph
    /\ HeldFeatures = {}
    /\ Len(result) = 2
    /\ result[1].name = "CI/CD Pipeline"

\* The subjects some fact of the relation is stored for.
SubjectsOf(atoms, rel) == {atoms[j].subj : j \in {k \in 1..Len(atoms) : atoms[k].rel = rel}}

\* The lookup of the relation: query_project_features for project_type,
\* get_feature_description for feature.
lookup(atoms, rel, subj) ==
    IF rel = "project_type" THEN query_project_features(atoms, subj)
    ELSE get_feature_description(atoms, subj)

\* C22: the store is append-only.  A call of add_knowledge leaves every
\* stored triple in place and unchanged, every value a lookup returned
\* before the call is returned by the same lookup after it, and the added
\* value is returned by the lookup of its relation and subject.
C22_AppendOnly ==
    [][(space # <<>> /\ space' # space) =>
        /\ Len(space') = Len(space) + 1
        /\ SubSeq(space', 1, Len(space)) = space
        /\ \A rel \in {"project_type", "feature"} :
            \A subj \in SubjectsOf(space, rel) :
                \A i \in 1..Len(lookup(space, rel, subj)) :
                    \E j \in 1..Len(lookup(space', rel, subj)) :
                        lookup(space', rel, subj)[j] = lookup(space, rel, subj)[i]
        /\ \E added \in {space'[Len(space')]} :
            \E returned \in {lookup(space', added.rel, added.subj)} :
                \E j \in 1..Len(returned) :
                    returned[j] = IF added.rel = "feature" THEN added.obj.v
                                  ELSE StripStr(AtomStr(added.obj))
      ]_vars

(***************************************************************************)
(* PullRequestRAG  (uagent2/pr_metta)                                      *)
(***************************************************************************)
\* knowledge.py, lines 10-81: the atoms of the seed, in the order added.
initialize_pr_knowledge_graph ==
    <<E("pr_type", "feature", Sym("functionality_review")),
      E("pr_type", "feature", Sym("code_quality_check")),
      E("pr_type", "feature", Sym("test_coverage")),
      E("pr_type", "feature", Sym("documentation_update")),
      E("pr_type", "bugfix", Sym("root_cause_analysis")),
      E("pr_type", "bugfix", Sym("regression_testing")),
      E("pr_type", "bugfix", Sym("edge_case_handling")),
      E("pr_type", "refactor", Sym("code_structure_improvement")),
      E("pr_type", "refactor", Sym("performance_impact")),
      E("pr_type", "refactor", Sym("maintainability_check")),
      E("pr_type", "docs", Sym("content_clarity")),
      E("pr_type", "docs", Sym("technical_accuracy")),
      E("pr_type", "docs", Sym("completeness_check")),
      E("pr_type", "security", Sym("vulnerability_assessment")),
      E("pr_type", "security", Sym("security_best_practices")),
      E("pr_type", "security", Sym("access_control_review")),
      E("pr_type", "performance", Sym("benchmark_analysis")),
      E("pr_type", "performance", Sym("resource_usage")),
      E("pr_type", "performance", Sym("scalability_impact")),
      E("analysis", "functionality_review", ValueAtom("Review the new functionality for correctness and completeness")),
      E("analysis", "code_quality_check", ValueAtom("Assess code quality, readability, and adherence to standards")),
      E("analysis", "test_coverage", ValueAtom("Verify adequate test coverage for new functionality")),
      E("analysis", "documentation_update", ValueAtom("Check if documentation is updated for new features")),
      E("analysis", "root_cause_analysis", ValueAtom("Analyze if the root cause of the bug is properly addressed")),
      E("analysis", "regression_testing", ValueAtom("Ensure the fix doesn't introduce new issues")),
      E("analysis", "edge_case_handling", ValueAtom("Verify edge cases and error conditions are handled")),
      E("analysis", "code_structure_improvement", ValueAtom("Evaluate improvements in code organization and structure")),
      E("analysis", "performance_impact", ValueAtom("Assess potential performance implications of refactoring")),
      E("analysis", "maintainability_check", ValueAtom("Review how changes improve code maintainability")),
      E("analysis", "content_clarity", ValueAtom("Check documentation clarity and understandability")),
      E("analysis", "technical_accuracy", ValueAtom("Verify technical accuracy of documentation changes")),
      E("analysis", "completeness_check", ValueAtom("Ensure documentation covers all necessary aspects")),
      E("analysis", "vulnerability_assessment", ValueAtom("Assess potential security vulnerabilities in changes")),
      E("analysis", "security_best_practices", ValueAtom("Verify adherence to security best practices")),
      E("analysis", "access_control_review", ValueAtom("Review access control and permission changes")),
      E("analysis", "benchmark_analysis", ValueAtom("Analyze performance benchmarks and improvements")),
      E("analysis", "resource_usage", ValueAtom("Review resource usage implications of changes")),
      E("analysis", "scalability_impact", ValueAtom("Assess impact on system scalability")),
      E("file_pattern", "test", Sym("feature")),
      E("file_pattern", "spec", Sym("feature")),
      E("file_pattern", "README", Sym("docs")),
      E("file_pattern", "doc", Sym("docs")),
      E("file_pattern", "security", Sym("security")),
      E("file_pattern", "auth", Sym("security")),
      E("file_pattern", "perf", Sym("performance")),
      E("file_pattern", "benchmark", Sym("performance"))>>

\* query_pr_analysis_areas, lines 9-33.
query_pr_analysis_areas(atoms, pr_type) ==
    ExtractNew(<<>>, match(atoms, "pr_type", StripQuotes(pr_type)))

\* get_analysis_description, lines 35-42.
get_analysis_description(atoms, analysis_area) ==
    LET r == match(atoms, "analysis", StripQuotes(analysis_area))
    IN  IF r = <<>> THEN <<>> ELSE <<r[1].v>>

\* Line 52: the file patterns, in order.
file_patterns == <<"test", "spec", "README", "doc", "security", "auth", "perf", "benchmark">>

RECURSIVE Flatten(_)
Flatten(seqs) == IF seqs = <<>> THEN <<>> ELSE Head(seqs) \o Flatten(Tail(seqs))

\* Lines 48-67: for every file and every pattern its lower-cased path
\* holds, the types the space gives the pattern, each appended once.
FilePatternTypes(atoms, file_changes) ==
    ExtractNew(<<>>,
        Flatten([f \in 1..Len(file_changes) |->
            Flatten([p \in 1..Len(file_patterns) |->
                IF Contains(Lower(file_changes[f]), Lower(file_patterns[p]))
                THEN match(atoms, "file_pattern", file_patterns[p])
                ELSE <<>>])]))

\* A variant that answers with the patterns found in the file names in
\* place of the types the fact store holds for them.
classify_pr_by_files_patterns(atoms, file_changes) ==
    LET found == SelectSeq(file_patterns,
                           LAMBDA p : \E f \in 1..Len(file_changes) :
                                        Contains(Lower(file_changes[f]), Lower(p)))
    IN  IF found = <<>> THEN <<"feature">> ELSE found

\* classify_pr_by_files, lines 44-74.
classify_pr_by_files(atoms, file_changes) ==
    IF FilePatternTypes(atoms, file_changes) = <<>> THEN <<"feature">>
    ELSE FilePatternTypes(atoms, file_changes)

\* Lines 83-90, in insertion order.
type_keywords ==
    <<[pr_type |-> "bugfix", keywords |-> <<"fix", "bug", "issue", "error", "problem", "resolve">>],
      [pr_type |-> "feature", keywords |-> <<"add", "new", "implement", "feature", "enhance">>],
      [pr_type |-> "refactor", keywords |-> <<"refactor", "restructure", "reorganize", "cleanup">>],
      [pr_type |-> "docs", keywords |-> <<"documentation", "readme", "docs", "guide">>],
      [pr_type |-> "security", keywords |-> <<"security", "vulnerability", "auth", "permission">>],
      [pr_type |-> "performance", keywords |-> <<"performance", "optimize", "speed", "benchmark">>]>>

\* A value inside an f-string: a str as it is, None as the word None.
Format(v) == IF v.t = "null" THEN "None" ELSE v.s

\* Lines 80-94: the types with a keyword in the lower-cased title and body.
TitleKeywordTypes(title, description) ==
    LET hit(entry) == AnyIn(entry.keywords, Lower(Format(title) \o " " \o Format(description)))
        kept == SelectSeq(type_keywords, hit)
    IN  [i \in 1..Len(kept) |-> kept[i].pr_type]

\* analyze_pr_title_description, lines 76-101.
analyze_pr_title_description(title, description) ==
    IF TitleKeywordTypes(title, description) = <<>> THEN <<"feature">>
    ELSE TitleKeywordTypes(title, description)

combined_types_title_only(title_types, file_types) ==
    {title_types[i] : i \in 1..Len(title_types)}

\* Line 114: set(title_types + file_types).
combined_types(title_types, file_types) ==
    {title_types[i] : i \in 1..Len(title_types)} \cup {file_types[i] : i \in 1..Len(file_types)}

\* list(a_set): the elements in the order the hash values of the strs give,
\* which differs from process to process (str hashes are salted).
ListsOf(a_set) ==
    {order \in [1..Cardinality(a_set) -> a_set] :
        \A i, j \in 1..Cardinality(a_set) : i # j => order[i] # order[j]}

\* A variant of lines 116-127 that lists every area of a type, with an
\* empty description for an area the space has none for.
analysis_plan_with_undescribed(atoms, all_types) ==
    Flatten([t \in 1..Len(all_types) |->
        LET areas == query_pr_analysis_areas(atoms, all_types[t])
        IN  [a \in 1..Len(areas) |->
                [area |-> areas[a],
                 description |-> IF get_analysis_description(atoms, areas[a]) = <<>> THEN ""
                                 ELSE get_analysis_description(atoms, areas[a])[1],
                 pr_type |-> all_types[t]]]])

\* Lines 116-127: the plan for the types in the order given.
analysis_plan_for(atoms, all_types) ==
    Flatten([t \in 1..Len(all_types) |->
        LET areas == query_pr_analysis_areas(atoms, all_types[t])
            described == SelectSeq(areas, LAMBDA area : get_analysis_description(atoms, area) # <<>>)
        IN  [a \in 1..Len(described) |->
                [area |-> described[a],
                 description |-> get_analysis_description(atoms, described[a])[1],
                 pr_type |-> all_types[t]]]])

\* Lines 105-107: pr_data.get with its defaults.
PrField(pr_data, key, default) == IF key \in DOMAIN pr_data THEN pr_data[key] ELSE default

\* get_comprehensive_analysis_plan, lines 103-132: the plans it may return.
get_comprehensive_analysis_plan(atoms, pr_data) ==
    LET title_types == analyze_pr_title_description(PrField(pr_data, "title", JStr("")),
                                                    PrField(pr_data, "body", JStr("")))
        file_types == classify_pr_by_files(atoms, PrField(pr_data, "changed_files", <<>>))
    IN  {[pr_types |-> all_types, analysis_plan |-> analysis_plan_for(atoms, all_types)] :
            all_types \in ListsOf(combined_types(title_types, file_types))}

\* Pull requests as fetch_pr_data hands them on: a title, a body that may
\* be None or missing, and the names of the changed files.
PrDatas ==
    {[k \in {"title", "changed_files"} \cup (IF body = Absent THEN {} ELSE {"body"}) |->
        IF k = "title" THEN title ELSE IF k = "body" THEN body ELSE files] :
        title \in {JStr("Fix null pointer in parser"), JStr("Add dark mode"),
                   JStr("Update deps"), JStr("Refactor auth module")},
        body \in {Absent, JNull, JStr("Improves performance")},
        files \in {<<>>, <<"parser.py">>, <<"src/parser.py", "test_utils.py">>,
                   <<"README.md", "docs/guide.md">>, <<"src/auth/login.py">>}}

InitPR ==
    /\ Idle
    /\ pc = "input"
    /\ req \in PrDatas
    /\ result = None
    /\ out2 = None

\* The agent starts: the space is seeded.
StartPrAgent ==
    /\ pc = "input"
    /\ pc' = "ready"
    /\ space' = initialize_pr_knowledge_graph
    /\ UNCHANGED <<attempt, calls, response, synthesis_prompt, result, outcome,
                   agent_responses, events, session_map, uuid_next, req, out2,
                   discovered_agents, selected_agents>>

\* get_comprehensive_analysis_plan is called for the pull request.
PlanRun ==
    /\ pc = "ready"
    /\ pc' = "planned"
    /\ result' \in get_comprehensive_analysis_plan(space, req)
    /\ UNCHANGED <<attempt, calls, response, synthesis_prompt, outcome, agent_responses,
                   events, session_map, uuid_next, req, out2, space, discovered_agents,
                   selected_agents>>

\* The agent is started anew and is called for the same pull request.
PlanRunAfterRestart ==
    /\ pc = "planned"
    /\ pc' = "again"
    /\ space' = initialize_pr_knowledge_graph
    /\ out2' \in get_comprehensive_analysis_plan(space', req)
    /\ UNCHANGED <<attempt, calls, response, synthesis_prompt, result, outcome,
                   agent_responses, events, session_map, uuid_next, req,
                   discovered_agents, selected_agents>>

NextPR == StartPrAgent \/ PlanRun \/ PlanRunAfterRestart

SpecPR == InitPR /\ [][NextPR]_vars

\* The types a rule gives the pull request: those with a keyword in title
\* and body, and those of the file patterns in the changed paths.
TitleRuleTypes ==
    {type_keywords[i].pr_type : i \in {j \in 1..Len(type_keywords) :
        AnyIn(type_keywords[j].keywords,
              Lower(Format(req.title) \o " "
                    \o Format(IF "body" \in DOMAIN req THEN req.body ELSE JStr(""))))}}

FileRuleTypes ==
    {space[a].obj.v : a \in {b \in 1..Len(space) :
        /\ space[b].rel = "file_pattern"
        /\ \E f \in 1..Len(req.changed_files) :
            Contains(Lower(req.changed_files[f]), Lower(space[b].subj))}}

WithDefault(types) == IF types = {} THEN {"feature"} ELSE types

PlannedTypes == {result.pr_types[i] : i \in 1..Len(result.pr_types)}

\* C17: pr_types holds, each once, exactly the types of the title and body
\* classifier together with the types of the file classifier; a pull
\* request titled "Fix null pointer in parser" that changes test_utils.py
\* gets feature and bugfix.
C17_TypesAreUnionOfBothClassifiers ==
    pc \in {"planned", "again"} =>
        /\ PlannedTypes = WithDefault(TitleRuleTypes) \cup WithDefault(FileRuleTypes)
        /\ Len(result.pr_types) = Cardinality(PlannedTypes)
        /\ (req.title = JStr("Fix null pointer in parser")
            /\ \E f \in 1..Len(req.changed_files) : req.changed_files[f] = "test_utils.py")
                => {"feature", "bugfix"} \subseteq PlannedTypes

C17_Witness ==
    /\ pc = "planned"
    /\ req.title = JStr("Fix null pointer in parser")
    /\ req.changed_files = <<"src/parser.py", "test_utils.py">>
    /\ "body" \notin DOMAIN req
    /\ PlannedTypes = {"feature", "bugfix"}

\* C18: feature is added by default only when neither classifier matches
\* any rule: when a rule of either classifier matched, pr_types holds the
\* types the rules gave and no other.
C18_DefaultOnlyWhenNothingMatches ==
    pc \in {"planned", "again"} =>
        IF TitleRuleTypes \cup FileRuleTypes = {}
        THEN PlannedTypes = {"feature"}
        ELSE PlannedTypes = TitleRuleTypes \cup FileRuleTypes

\* C19: equal pull request data gives the same pr_types and the same
\* analysis_plan, elements and order, in every run.
C19_SamePlanInEveryRun ==
    pc = "again" =>
        /\ out2.pr_types = result.pr_types
        /\ out2.analysis_plan = result.analysis_plan

(***************************************************************************)
(* The stages at their boundary: extract_json_from_response,               *)
(* process_repository_query and process_pr_query, each on one input        *)
(***************************************************************************)
\* analyze_repository_basic as a whole, lines 5-38: None unless the API
\* answered 200.
fetch_repository(status_code, data) ==
    IF status_code # 200 THEN None ELSE analyze_repository_basic(data)

\* analyze_code_changes, line 145: additions + deletions > 50 raises
\* TypeError unless both are numbers.
pr_query_raises(pr_data) ==
    \E i \in 1..Len(pr_data.file_changes) :
        pr_data.file_changes[i].additions.t # "num"
        \/ pr_data.file_changes[i].deletions.t # "num"

\* process_pr_query, lines 154-212, given what fetch_pr_data returned: the
\* lists it may return, as the 'analysis' names of their entries (the
\* descriptions are left out).  Whatever is raised inside is caught at
\* line 208.
process_pr_query(pr_data, atoms) ==
    IF pr_data = None THEN {<<"Failed to fetch PR data">>}
    ELSE IF pr_query_raises(pr_data) THEN {<<"Error">>}
    ELSE {<<"PR Overview", "Change Analysis">>
          \o [i \in 1..Len(plan.analysis_plan) |->
                TitleFrom(ReplaceUnderscores(plan.analysis_plan[i].area), 1)]
          \o (IF pr_data.mergeable = JBool(FALSE) THEN <<"Merge Conflicts">> ELSE <<>>)
          \o (IF pr_data.comments_count = 0 /\ pr_data.review_comments_count = 0
              THEN <<"Review Status">> ELSE <<>>) :
          plan \in get_comprehensive_analysis_plan(atoms, pr_data)}

\* Bodies of the answer of the GitHub API with fields that are missing,
\* null or of another type than the API documents.
OddRepos ==
    {[k \in {x \in DOMAIN f : f[x] # Absent} |-> f[k]] :
        f \in [name : {JStr("wallet"), JNull, JNum(5)},
               description : {Absent, JNull, JStr("a web scraping tool"), JNum(5)},
               language : {JNull, JStr("Python"), JNum(5)},
               topics : {Absent, JNull, StrList(<<"defi">>),
                         JList(<<JStr("ml"), JNull>>), JList(<<JNum(7)>>)}]}

\* What fetch_pr_data may return: None (lines 44-46, 105-109) or the
\* record of lines 70-99, with the numbers the API may give as null.
FetchedPrs ==
    {None} \cup
    {[title |-> title, body |-> JNull, changed_files |-> files, mergeable |-> mergeable,
      file_changes |-> [i \in 1..Len(files) |->
                            [filename |-> files[i], additions |-> additions,
                             deletions |-> JNum(1)]],
      comments_count |-> comments_count, review_comments_count |-> 0] :
        title \in {JStr("Fix null pointer in parser"), JNull},
        files \in {<<>>, <<"src/parser.py", "test_utils.py">>},
        mergeable \in {JNull, JBool(FALSE)},
        additions \in {JNum(3), JNull},
        comments_count \in {0, 2}}

StageInputs ==
    {[stage |-> "extract", resp |-> r] :
        r \in {NoContent, Text(Wrap("plain", base_record)),
               Text(Wrap("unclosed", base_record)),
               Text(Wrap("plain", Vary({"title"}, [title |-> Absent])))}
              \cup {Text(t) : t \in ProseTexts}}
    \cup {[stage |-> "repository", status_code |-> 200, data |-> d] : d \in OddRepos}
    \cup {[stage |-> "repository", status_code |-> 404, data |-> EmptyDict]}
    \cup {[stage |-> "pr", pr_data |-> d] : d \in FetchedPrs}

InitStages ==
    /\ Idle
    /\ pc = "input"
    /\ req \in StageInputs
    /\ result = None
    /\ out2 = None

StageExtractJson ==
    /\ pc = "input"
    /\ req.stage = "extract"
    /\ pc' = "answered"
    /\ outcome' = "returned"
    /\ result' = extract_json_from_response(req.resp)
    /\ UNCHANGED <<attempt, calls, response, synthesis_prompt, agent_responses, events,
                   session_map, uuid_next, req, out2, space, discovered_agents,
                   selected_agents>>

\* process_repository_query on an agent whose space holds the seed.
StageRepositoryQuery ==
    /\ pc = "input"
    /\ req.stage = "repository"
    /\ pc' = "answered"
    /\ \E repo_data \in {fetch_repository(req.status_code, req.data)} :
        /\ outcome' = IF process_repository_query_raises(repo_data)
                      THEN "raised" ELSE "returned"
        /\ result' = IF process_repository_query_raises(repo_data) THEN None
                     ELSE process_repository_query(repo_data, initialize_knowledge_graph)
    /\ UNCHANGED <<attempt, calls, response, synthesis_prompt, agent_responses, events,
                   session_map, uuid_next, req, out2, space, discovered_agents,
                   selected_agents>>

StagePrQuery ==
    /\ pc = "input"
    /\ req.stage = "pr"
    /\ pc' = "answered"
    /\ outcome' = "returned"
    /\ result' \in process_pr_query(req.pr_data, initialize_pr_knowledge_graph)
    /\ UNCHANGED <<attempt, calls, response, synthesis_prompt, agent_responses, events,
                   session_map, uuid_next, req, out2, space, discovered_agents,
                   selected_agents>>

NextStages == StageExtractJson \/ StageRepositoryQuery \/ StagePrQuery

SpecStages == InitStages /\ [][NextStages]_vars

\* C30: the stages do not raise past their boundary.  For every input,
\* metadata with null fields or fields of another type and a fetch that
\* did not answer 200 included, extract_json_from_response,
\* process_repository_query and process_pr_query return a value: a result,
\* or the sentinel or failure entry.
C30_StagesNeverRaise ==
    pc = "answered" =>
        /\ outcome = "returned"
        /\ (req.stage = "repository" /\ req.status_code # 200) => result = <<ErrorEntry>>
        /\ (req.stage = "pr" /\ req.pr_data = None) => result = <<"Failed to fetch PR data">>

(***************************************************************************)
(* The end of an analysis run                                              *)
(***************************************************************************)
\* create_github_issue, lines 797-799: the POST to the issues endpoint and
\* raise_for_status, which raises for a 4xx or 5xx answer.  No line of
\* analyze_repository_and_create_issue or direct_synthesis_analysis calls
\* it, so no action of the run logs it.
create_github_issue(status_code) ==
    IF status_code >= 400 THEN Exception ELSE [created |-> TRUE]

\* The stage events of a run appear in the given order.
PassedInOrder(kinds) ==
    \E pos \in [1..Len(kinds) -> 1..Len(events)] :
        /\ \A i \in 1..Len(kinds) : events[pos[i]].e = kinds[i]
        /\ \A i \in 1..(Len(kinds) - 1) : pos[i] < pos[i + 1]

\* C31: a run that ended with success has gathered opinions, then
\* synthesized them into the canonical record and built the payload, and
\* then created the issue with the POST of create_github_issue.
C31_SuccessPassedThroughIssueCreation ==
    (pc = "done" /\ result.success) =>
        PassedInOrder(<<"collect", "synthesize", "create_github_issue">>)

(***************************************************************************)
(* select_best_agents alone, on lists of up to five discovered agents      *)
(***************************************************************************)
\* "[0, 2, 5]": a list of indices as the prompt of lines 293 asks for it.
RECURSIVE IndexItems(_)
IndexItems(indices) ==
    IF indices = <<>> THEN ""
    ELSE IF Len(indices) = 1 THEN NatToStr(indices[1])
    ELSE NatToStr(indices[1]) \o ", " \o IndexItems(Tail(indices))

IndexList(indices) == "[" \o IndexItems(indices) \o "]"

\* What the selection call may answer: it raises, it has a null content, it
\* writes a list of indices (alone or inside a sentence), or another text.
SelectAnswers ==
    {[kind |-> "raise", text |-> "", indices |-> <<>>],
     [kind |-> "null", text |-> "", indices |-> <<>>]}
    \cup {[kind |-> "list", text |-> lead \o IndexList(l), indices |-> l] :
            lead \in {"", "I pick "},
            l \in {<<>>, <<0>>, <<1, 0>>, <<0, 0, 3>>, <<9>>, <<0, 9, 1>>, <<0, 1, 2, 3>>,
                   <<0, 1, 2, 3, 0>>, <<2, 2, 2, 2>>, <<10>>, <<4, 3>>, <<5, 4>>}}
    \cup {[kind |-> "text", text |-> t, indices |-> <<>>] :
            t \in {"[ ]", "[,]", "agents 0 and 1", "[0,,1 ]", "[a] then\n[ 1 ]"}}

\* The lists select_best_agents may be given: none to five agents, as
\* discover_analysis_agents returns them (an address each, no address twice).
SelectInputs ==
    {[kind |-> "select", repo_url |-> RepoUrl, n |-> n, answer |-> a] :
        n \in 0..5, a \in SelectAnswers}

InitSelect ==
    /\ attempt = 0
    /\ calls = 0
    /\ response = NoContent
    /\ synthesis_prompt = "initial"
    /\ outcome = "pending"
    /\ agent_responses = <<>>
    /\ events = <<>>
    /\ session_map = EmptyMap
    /\ uuid_next = 1
    /\ space = <<>>
    /\ selected_agents = <<>>
    /\ pc = "select"
    /\ req \in SelectInputs
    /\ discovered_agents =
            [i \in 1..req.n |-> [MarketAgent(i) EXCEPT !.search_query =
                                                    search_queries(req.repo_url)[1]]]
    /\ result = None
    /\ out2 = None

\* One call of select_best_agents, lines 264-319; the model is called (line
\* 300) only for a non-empty list.
SelectBestAgents ==
    /\ pc = "select"
    /\ \E o \in {CASE req.answer.kind = "raise" -> Raised
                   [] req.answer.kind = "null" -> NoContent
                   [] OTHER -> Text(<<Prose(req.answer.text)>>)} :
        /\ response' = IF discovered_agents = <<>> THEN response ELSE o
        /\ selected_agents' = select_best_agents(discovered_agents, o)
    /\ \E n \in {IF discovered_agents = <<>> THEN 0 ELSE 1} :
        /\ calls' = calls + n
        /\ session_map' = after_model_calls(session_map, uuid_next, n).map
        /\ uuid_next' = after_model_calls(session_map, uuid_next, n).next
    /\ events' = Append(events, Event("select", Len(selected_agents')))
    /\ outcome' = "returned"
    /\ pc' = "selected"
    /\ UNCHANGED <<attempt, synthesis_prompt, result, agent_responses, req, out2, space,
                   discovered_agents>>

SpecSelect == InitSelect /\ [][SelectBestAgents]_vars

\* C32: select_best_agents returns at most three agents, whatever the
\* model answered, an answer with more than three indices or with a
\* repeated index included.
C32_AtMostThreeSelected ==
    pc = "selected" => Len(selected_agents) <= 3

\* The indices of an answer that lie inside a list of n agents, in order.
InsideList(indices, n) == SelectSeq(indices, LAMBDA k : k < n)

\* C37: every agent select_best_agents returns is an element of the list
\* it was given.  An index of the answer outside the list is dropped
\* without error: the agents returned are those at the other indices of
\* the answer, in the order of the answer.  For the empty list the model
\* is not called and the empty list is returned.
C37_SelectedAreDiscovered ==
    pc = "selected" =>
        /\ \A n \in 1..Len(selected_agents) :
            \E i \in 1..Len(discovered_agents) : selected_agents[n] = discovered_agents[i]
        /\ discovered_agents = <<>> =>
            /\ selected_agents = <<>>
            /\ calls = 0
            /\ session_map = EmptyMap
        /\ (discovered_agents # <<>> /\ req.answer.kind = "list" /\ req.answer.indices # <<>>) =>
            /\ calls = 1
            /\ selected_agents =
                [n \in 1..Len(InsideList(req.answer.indices, Len(discovered_agents))) |->
                    discovered_agents[InsideList(req.answer.indices,
                                                 Len(discovered_agents))[n] + 1]]

\* The answer "[0, 9, 1]" for two agents: index 9 is dropped, the agents at
\* 0 and 1 are returned.
C37_Witness ==
    /\ pc = "selected"
    /\ req.answer.indices = <<0, 9, 1>>
    /\ Len(discovered_agents) = 2
    /\ selected_agents = discovered_agents
    /\ outcome = "returned"

(***************************************************************************)
(* The opinions handed to synthesis                                        *)
(***************************************************************************)
\* The opinion was written for the agent of this name (line 391).
OpinionOf(opinion, agent_name) ==
    StartsWith(opinion, "\nAnalysis from " \o agent_name \o ":")

\* C33: collect_agent_responses returns one opinion per selected agent, in
\* the order of the selected agents, whether the dispatch to the agent was
\* sent or failed; it is reached as soon as the last dispatch was tried and
\* takes one step; synthesis is given as many opinions as agents selected.
C33_OneOpinionPerSelectedAgent ==
    /\ pc = "collect" =>
        /\ Len(Dispatches) = Len(selected_agents)
        /\ agent_responses = <<>>
    /\ pc \in {"synthesize", "done"} /\ outcome # "direct" /\ CountEvents("dispatch") + CountEvents("dispatch_failed") > 0 =>
        /\ CountEvents("collect") = 1
        /\ Len(agent_responses) = Len(selected_agents)
        /\ \A n \in 1..Len(selected_agents) :
            OpinionOf(agent_responses[n], selected_agents[n].name)
        /\ \A i \in 1..Len(events) :
            events[i].e = "collect" => events[i].n = Len(selected_agents)

\* Two agents selected in the order 1, 0, the first dispatch failed: the
\* two opinions are for the same agents in the same order.
C33_Witness ==
    /\ pc = "synthesize"
    /\ Len(selected_agents) = 2
    /\ selected_agents[1].name = "Analyzer2"
    /\ selected_agents[2].name = "Analyzer1"
    /\ Dispatches[1].e = "dispatch_failed"
    /\ Len(agent_responses) = 2
    /\ OpinionOf(agent_responses[1], "Analyzer2")
    /\ OpinionOf(agent_responses[2], "Analyzer1")

(***************************************************************************)
(* parse_direct_response against extract_json_from_response                *)
(***************************************************************************)
\* C34: on every response text parse_direct_response returns the record
\* extract_json_from_response returns for it, and where the extractor
\* reports a failure (no object, malformed JSON, a minimum field missing)
\* it returns the record of the regex slot filling, with the title of the
\* first title pattern that matches.
C34_DirectRefinesStrictExtractor ==
    (pc = "direct" /\ req.resp.kind = "text") =>
        IF extract_json_from_response(req.resp) # None
        THEN result = extract_json_from_response(req.resp)
        ELSE /\ result = manual_extraction(req.resp.toks, RepoUrl)
             /\ result.title = JStr(clean_title(first_title_match(req.resp.toks, 1)))

(***************************************************************************)
(* The body of the fallback record                                         *)
(***************************************************************************)
\* create_fallback_issue_data, line 728: response[:100], the piece of an
\* opinion its 'Agent Analysis Summary' lists.  The function has no caller;
\* synthesize_analysis returns create_smart_fallback_from_responses.
summary_piece(opinion) ==
    SubSeq(opinion, 1, IF Len(opinion) < 100 THEN Len(opinion) ELSE 100)

\* C35: the body of the fallback record holds the repository reference it
\* was made for and a summary of the opinions it was derived from: of every
\* opinion at least its leading text.
C35_FallbackBodyEmbedsOpinions ==
    pc = "fallback" =>
        /\ Contains(result.body.s, RepoUrl)
        /\ \A n \in 1..Len(req.ops) : Contains(result.body.s, summary_piece(req.ops[n]))

(***************************************************************************)
(* Both classifiers: repository metadata and pull requests                 *)
(***************************************************************************)
\* A request is a pull request (it has a title) or repository metadata.
InitVocabulary == InitClassify \/ InitPR

ClassifyMetadata == "title" \notin DOMAIN req /\ ClassifyProjectType

PlanPullRequest == "title" \in DOMAIN req /\ NextPR

NextVocabulary == ClassifyMetadata \/ PlanPullRequest

SpecVocabulary == InitVocabulary /\ [][NextVocabulary]_vars

\* C36: classify_project_type returns, for metadata of any content and for
\* absent metadata, one tag of web_app, ai_ml, mobile_app, scraping,
\* competitive_programming, documentation, blockchain; and with the seeded
\* facts every element of pr_types is one of feature, bugfix, refactor,
\* docs, security, performance.
C36_TagsInsideVocabulary ==
    /\ pc = "classified" =>
        /\ result.project_type \in {"web_app", "ai_ml", "mobile_app", "scraping",
                                    "competitive_programming", "documentation", "blockchain"}
        /\ DOMAIN req = {} => result.project_type = "web_app"
    /\ pc \in {"planned", "again"} =>
        /\ space = initialize_pr_knowledge_graph
        /\ result.pr_types # <<>>
        /\ \A i \in 1..Len(result.pr_types) :
            result.pr_types[i] \in {"feature", "bugfix", "refactor", "docs", "security",
                                    "performance"}

\* A pull request that touches README.md and docs/guide.md and is titled
\* 'Refactor auth module': the file rules give docs, the title rules
\* refactor and security.
C36_Witness ==
    /\ pc = "planned"
    /\ req.changed_files = <<"README.md", "docs/guide.md">>
    /\ req.title = JStr("Refactor auth module")
    /\ {"docs", "refactor", "security"}
            \subseteq {result.pr_types[i] : i \in 1..Len(result.pr_types)}

(***************************************************************************)
(* handle_chat_message  (uagent/agent.py and uagent2/agent.py)             *)
(***************************************************************************)
\* The content items of a ChatMessage: text items and items of another
\* type of the chat protocol.
ContentItems ==
    {[type |-> "text", text |-> "https://github.com/acme/widgets/pull/7, "],
     [type |-> "text", text |-> "hello"],
     [type |-> "start-session", text |-> ""]}

MaxItems == 3

ChatMessages ==
    {[kind |-> "chat", agent |-> a, sender |-> "agent1qsender", msg_id |-> Uuid(m),
      content |-> c] :
        a \in {"uagent", "uagent2"}, m \in {1, 2},
        c \in UNION {[1..n -> ContentItems] : n \in 0..MaxItems}}

\* What the try block of the handler does for a text item: it finds a URL
\* and the analysis returns, it finds no URL, or a call in it raises.
ItemOutcomes == {"analysis", "no_url", "raised"}

\* A variant in which a failed analysis is logged and not answered.
chat_reply_unless_failed(agent, item, item_outcome) ==
    IF item.type # "text" \/ item_outcome = "raised" THEN <<>>
    ELSE <<"## Repository Analysis Complete">>

\* The texts sent for one content item: none for an item that is no
\* TextContent (uagent 267, uagent2 361); for a text item the formatted
\* response (uagent 283-315, uagent2 375-430), or the error text of the
\* except clause (uagent 317-329, uagent2 432-444).  Only the beginning
\* of each text is kept.
chat_reply(agent, item, item_outcome) ==
    IF item.type # "text" THEN <<>>
    ELSE IF item_outcome = "raised" THEN <<"Repository analysis failed: ">>
    ELSE IF agent = "uagent" THEN <<"## Repository Analysis Complete">>
    ELSE IF item_outcome = "no_url" THEN <<"## Error: Invalid Input">>
    ELSE <<"## Pull Request Analysis Complete">>

InitChat ==
    /\ Idle
    /\ pc = "received"
    /\ req \in ChatMessages
    /\ result = None
    /\ out2 = <<>>

\* uagent 259-263, uagent2 353-357: the acknowledgement is sent first.
SendAcknowledgement ==
    /\ pc = "received"
    /\ out2' = Append(out2, [type |-> "ChatAcknowledgement", to |-> req.sender,
                             acknowledged_msg_id |-> req.msg_id, text |-> "", item |-> 0])
    /\ pc' = IF req.content = <<>> THEN "handled" ELSE "items"
    /\ UNCHANGED <<attempt, calls, response, synthesis_prompt, result, outcome,
                   agent_responses, events, session_map, uuid_next, req, space,
                   discovered_agents, selected_agents>>

\* One iteration of the loop over msg.content (uagent 266-329, uagent2
\* 360-444); each reply is a ChatMessage with a new msg_id.
HandleContentItem ==
    /\ pc = "items"
    /\ \E item_outcome \in ItemOutcomes :
        \E texts \in {chat_reply(req.agent, req.content[attempt + 1], item_outcome)} :
            /\ out2' = out2 \o [k \in 1..Len(texts) |->
                                  [type |-> "ChatMessage", to |-> req.sender,
                                   acknowledged_msg_id |-> None, text |-> texts[k],
                                   item |-> attempt + 1]]
            /\ uuid_next' = uuid_next + Len(texts)
    /\ attempt' = attempt + 1
    /\ pc' = IF attempt' = Len(req.content) THEN "handled" ELSE "items"
    /\ UNCHANGED <<calls, response, synthesis_prompt, result, outcome, agent_responses,
                   events, session_map, req, space, discovered_agents, selected_agents>>

NextChat == SendAcknowledgement \/ HandleContentItem

SpecChat == InitChat /\ [][NextChat]_vars

\* The positions of the text items among the first n content items.
TextItems(n) == SelectSeq([i \in 1..n |-> i], LAMBDA i : req.content[i].type = "text")

\* The replies sent so far.
Replies == SelectSeq(out2, LAMBDA m : m.type = "ChatMessage")

\* C38: the acknowledgement, with the msg_id received, is the first message
\* sent to the sender and the only acknowledgement; then every text item,
\* in the order of the content, gets exactly one reply, the analysis or the
\* error text; an item that is no text gets none.
C38_AckThenOneReplyPerTextItem ==
    /\ pc = "received" => out2 = <<>>
    /\ pc # "received" =>
        /\ out2[1].type = "ChatAcknowledgement"
        /\ out2[1].acknowledged_msg_id = req.msg_id
        /\ \A k \in 1..Len(out2) : out2[k].to = req.sender
        /\ Len(Replies) = Len(out2) - 1
        /\ Len(Replies) = Len(TextItems(attempt))
        /\ \A k \in 1..Len(Replies) :
            /\ Replies[k].item = TextItems(attempt)[k]
            /\ Replies[k].text \in {"## Repository Analysis Complete",
                                    "## Pull Request Analysis Complete",
                                    "## Error: Invalid Input",
                                    "Repository analysis failed: "}
    /\ pc = "handled" => attempt = Len(req.content)

\* Text, session start, text: the analysis of the first item failed, the
\* second text item was analysed; two replies follow the acknowledgement.
C38_Witness ==
    /\ pc = "handled"
    /\ req.agent = "uagent2"
    /\ Len(req.content) = 3
    /\ req.content[2].type = "start-session"
    /\ Len(out2) = 3
    /\ out2[2].text = "Repository analysis failed: " /\ out2[2].item = 1
    /\ out2[3].text = "## Pull Request Analysis Complete" /\ out2[3].item = 3

(***************************************************************************)
(* get_comprehensive_analysis_plan on a store that was added to            *)
(***************************************************************************)
\* add_pr_knowledge, pr_metta/repositoryrag.py lines 134-139: the code of
\* add_knowledge.
add_pr_knowledge(atoms, relation_type, subject, object_value) ==
    add_knowledge(atoms, relation_type, subject, object_value)

\* Facts added at run time, in the order of the calls: an area without a
\* description, the same area and then a description for it, an area given
\* as a str, a file pattern with a type that has no area, a second
\* description for a seeded area, a description for an area of no type.
PrKnowledgeAdds ==
    LET license == [relation_type |-> "pr_type", subject |-> "feature",
                    object_value |-> PyAtom("license_check")]
        described == [relation_type |-> "analysis", subject |-> "license_check",
                      object_value |-> PyStr("Check the licences of new dependencies")]
    IN  {<<license>>, <<license, described>>, <<described>>,
         <<[relation_type |-> "pr_type", subject |-> "docs",
            object_value |-> PyStr("spell_check")]>>,
         <<[relation_type |-> "file_pattern", subject |-> "test",
            object_value |-> PyAtom("chore")], license>>,
         <<[relation_type |-> "analysis", subject |-> "test_coverage",
            object_value |-> PyStr("Count the covered lines")]>>}

\* The calls of add_pr_knowledge made after the start, one after the other.
RECURSIVE add_pr_facts(_, _)
add_pr_facts(atoms, facts) ==
    IF facts = <<>> THEN atoms
    ELSE add_pr_facts(add_pr_knowledge(atoms, Head(facts).relation_type, Head(facts).subject,
                                       Head(facts).object_value),
                      Tail(facts))

AddPrKnowledge ==
    /\ pc = "ready"
    /\ space = initialize_pr_knowledge_graph
    /\ \E facts \in PrKnowledgeAdds :
        /\ space' = add_pr_facts(space, facts)
        /\ calls' = calls + Len(facts)
    /\ UNCHANGED <<pc, attempt, response, synthesis_prompt, result, outcome,
                   agent_responses, events, session_map, uuid_next, req, out2,
                   discovered_agents, selected_agents>>

NextPlan == StartPrAgent \/ AddPrKnowledge \/ PlanRun

SpecPlan == InitPR /\ [][NextPlan]_vars

\* The areas the space registers for a type, as the strs the query gives.
RegisteredAreas(pr_type) ==
    {StripStr(AtomStr(space[i].obj)) :
        i \in {j \in 1..Len(space) : space[j].rel = "pr_type" /\ space[j].subj = pr_type}}

\* The positions of the descriptions the space holds for an area.
DescriptionsAt(area) ==
    {i \in 1..Len(space) : space[i].rel = "analysis" /\ space[i].subj = StripQuotes(area)}

\* C39: pr_types is never empty; every entry of analysis_plan has a
\* pr_type that is an element of pr_types, an area the fact store registers
\* for that type and a description the store holds for that area; an area
\* without a description has no entry.
C39_PlanEntriesAreRegistered ==
    pc = "planned" =>
        /\ result.pr_types # <<>>
        /\ \A n \in 1..Len(result.analysis_plan) :
            \E e \in {result.analysis_plan[n]} :
                /\ \E t \in 1..Len(result.pr_types) : result.pr_types[t] = e.pr_type
                /\ e.area \in RegisteredAreas(e.pr_type)
                /\ \E i \in DescriptionsAt(e.area) : e.description = space[i].obj.v
        /\ \A t \in 1..Len(result.pr_types) :
            \A area \in RegisteredAreas(result.pr_types[t]) :
                DescriptionsAt(area) = {} =>
                    ~\E n \in 1..Len(result.analysis_plan) :
                        result.analysis_plan[n].area = area

\* license_check was registered for feature without a description: the
\* plan of a feature pull request has entries, and none for license_check.
C39_Witness ==
    /\ pc = "planned"
    /\ "license_check" \in RegisteredAreas("feature")
    /\ DescriptionsAt("license_check") = {}
    /\ \E t \in 1..Len(result.pr_types) : result.pr_types[t] = "feature"
    /\ \E n \in 1..Len(result.analysis_plan) : result.analysis_plan[n].pr_type = "feature"
    /\ \A n \in 1..Len(result.analysis_plan) : result.analysis_plan[n].area # "license_check"

====
